---- MODULE Spec2Model ----
(***************************************************************************)
(* dependency-guard: the peer-dependency compatibility checker, the risk   *)
(* scoring engine and the validator that orchestrates them.                *)
(*                                                                         *)
(* JavaScript values are represented as follows.                           *)
(*   T | null, T | undefined : a sequence, <<>> for null and <<v>> for v   *)
(*   string | false          : <<>> for false and <<s>> for the string s   *)
(*   Record<string, T>       : a sequence of entries in insertion order    *)
(*                             (peers) or a function on the declared keys  *)
(*   a thrown exception      : the task's pc becomes "raised"              *)
(***************************************************************************)
EXTENDS Integers, Sequences, FiniteSets, TLC

VARIABLES
    fs,            \* the directories above projectPath: which hold a package.json
    manifest,      \* what reading and parsing the found package.json gives
    cache,         \* the file cache: key -> <<>> (no entry) or <<data>>
    vpc,           \* validatePackage: where the orchestrator is
    cpc,           \* checkCompatibility: where the task is
    pkgJsonPath,   \* checkCompatibility: result of findPackageJson
    installed,     \* checkCompatibility: the merged installed map
    peerData,      \* checkCompatibility: result of fetchPeerDependencies
    compatibility, \* the CompatibilityReport, <<>> until returned
    ipc,           \* getPackageInfo: where the task is
    reg,           \* getPackageInfo: the packument being normalised
    packageInfo,   \* the PackageInfo | null returned by getPackageInfo
    spc,           \* checkSecurity: where the task is
    secVersion,    \* the version argument checkSecurity was called with
    security,      \* the SecurityReport, <<>> until returned
    packageName,   \* the package being validated
    now,           \* Date.now(), in hours
    riskScore,     \* the RiskScore, <<>> until computed
    result,        \* the ValidationResult, <<>> until returned
    requests,      \* history: the requests sent so far, in order
    failed,        \* history: the requests that threw or answered non-OK
    received,      \* history: the response each request of this validation got
    cache0,        \* history: the cache as it was when this validation began
    dryRun,        \* CLI: options.dryRun
    noCache,       \* CLI: --no-cache was given
    cliPc,         \* CLI: where the command's action is
    exitCode,      \* CLI: <<>> while the process runs, then <<code>>
    pending,       \* check-file: the package names not yet validated
    hasBlock,      \* check-file: hasBlock
    reported,      \* CLI: what reportResult printed, one entry per call
    got,           \* cache: the cache.get just made, <<>> or <<[key, value]>>
    lastSet        \* history: key -> the last cache.set not deleted or cleared since

vars == <<packageName, now, fs, manifest, cache, vpc, cpc, pkgJsonPath, installed, peerData,
          compatibility, ipc, reg, packageInfo, spc, secVersion, security,
          riskScore, result, requests, failed, received, cache0,
          dryRun, noCache, cliPc, exitCode, pending, hasBlock, reported, got, lastSet>>

None == <<>>
Some(v) == <<v>>

(***************************************************************************)
(* Bounds of the model.                                                    *)
(***************************************************************************)
MaxChecks == 2     \* longest checks sequence handed to the scorer directly
MaxVulns == 2      \* longest vulnerabilities list
MaxTicks == 3      \* most hours the clock advances between calls of the cache
MaxDepth == 3      \* most ancestors of projectPath below the filesystem root
MaxPeers == 16     \* most checks of a report built from status counts
MaxPerSeverity == 2 \* most vulnerabilities of one severity in a report built from counts

RECURSIVE SeqsUpTo(_, _)
SeqsUpTo(S, n) ==
    IF n = 0 THEN {<<>>}
    ELSE LET shorter == SeqsUpTo(S, n - 1)
         IN  shorter \cup {Append(s, x) : s \in shorter, x \in S}

RECURSIVE CountIf(_, _)
CountIf(seq, v) ==
    IF seq = <<>> THEN 0
    ELSE (IF Head(seq) = v THEN 1 ELSE 0) + CountIf(Tail(seq), v)

Min(a, b) == IF a < b THEN a ELSE b
Max(a, b) == IF a > b THEN a ELSE b

(***************************************************************************)
(* Risk scoring engine (checkers/scoring.ts).                              *)
(***************************************************************************)
WEIGHT_COMPATIBILITY == 40
WEIGHT_SECURITY == 30
WEIGHT_DEPRECATION == 15
WEIGHT_MAINTENANCE == 15

THRESHOLD_ALLOW == 75
THRESHOLD_WARN == 40

Statuses == {"COMPATIBLE", "INCOMPATIBLE", "MISSING", "OPTIONAL_MISSING"}
Severities == {"LOW", "MODERATE", "HIGH", "CRITICAL"}

\* Halves round down.
MathRoundHalfDown(num, den) == (2 * num + den - 1) \div (2 * den)

\* Math.round(num / den) for num >= 0, den > 0: halves round up.
MathRound(num, den) == (2 * num + den) \div (2 * den)

StatusesOf(checks) == [i \in 1..Len(checks) |-> checks[i].status]

Factor(name, score, maxScore) == [name |-> name, score |-> score, maxScore |-> maxScore]

scoreCompatibility(report) ==
    LET total == Len(report.checks)
        missing == CountIf(StatusesOf(report.checks), "MISSING")
        incompatible == CountIf(StatusesOf(report.checks), "INCOMPATIBLE")
        issues == missing + incompatible
        \* penalty = min(issues / total, 1), kept as the fraction pnum / total
        pnum == Min(issues, total)
    IN  IF total = 0
        THEN Factor("Peer Compatibility", WEIGHT_COMPATIBILITY, WEIGHT_COMPATIBILITY)
        ELSE Factor("Peer Compatibility",
                    MathRound(WEIGHT_COMPATIBILITY * (total - pnum), total),
                    WEIGHT_COMPATIBILITY)

\* A LOW vulnerability costs one point.
scoreSecurityLowCounts(report) ==
    LET sevs == [i \in 1..Len(report.vulnerabilities) |-> report.vulnerabilities[i].severity]
        critical == CountIf(sevs, "CRITICAL")
        high == CountIf(sevs, "HIGH")
        moderate == CountIf(sevs, "MODERATE")
        low == CountIf(sevs, "LOW")
        pnum == Min(critical * 15 + high * 8 + moderate * 3 + low, WEIGHT_SECURITY)
    IN  IF Len(report.vulnerabilities) = 0
        THEN Factor("Security", WEIGHT_SECURITY, WEIGHT_SECURITY)
        ELSE Factor("Security",
                    MathRound(WEIGHT_SECURITY * (WEIGHT_SECURITY - pnum), WEIGHT_SECURITY),
                    WEIGHT_SECURITY)

scoreSecurity(report) ==
    LET sevs == [i \in 1..Len(report.vulnerabilities) |-> report.vulnerabilities[i].severity]
        critical == CountIf(sevs, "CRITICAL")
        high == CountIf(sevs, "HIGH")
        moderate == CountIf(sevs, "MODERATE")
        \* penalty = min(weighted / WEIGHT_SECURITY, 1)
        pnum == Min(critical * 15 + high * 8 + moderate * 3, WEIGHT_SECURITY)
    IN  IF Len(report.vulnerabilities) = 0
        THEN Factor("Security", WEIGHT_SECURITY, WEIGHT_SECURITY)
        ELSE Factor("Security",
                    MathRound(WEIGHT_SECURITY * (WEIGHT_SECURITY - pnum), WEIGHT_SECURITY),
                    WEIGHT_SECURITY)

\* The points go to the deprecated package.
scoreDeprecationInverted(info) ==
    IF info = None
    THEN Factor("Deprecation", WEIGHT_DEPRECATION, WEIGHT_DEPRECATION)
    ELSE IF info[1].deprecated # None
         THEN Factor("Deprecation", WEIGHT_DEPRECATION, WEIGHT_DEPRECATION)
         ELSE Factor("Deprecation", 0, WEIGHT_DEPRECATION)

\* A deprecated package keeps half of the points.
scoreDeprecationPartial(info) ==
    IF info = None
    THEN Factor("Deprecation", WEIGHT_DEPRECATION, WEIGHT_DEPRECATION)
    ELSE IF info[1].deprecated # None
         THEN Factor("Deprecation", WEIGHT_DEPRECATION \div 2, WEIGHT_DEPRECATION)
         ELSE Factor("Deprecation", WEIGHT_DEPRECATION, WEIGHT_DEPRECATION)

\* info is <<>> (null) or <<PackageInfo>>; deprecated is <<>> (false) or <<string>>.
scoreDeprecation(info) ==
    IF info = None
    THEN Factor("Deprecation", WEIGHT_DEPRECATION, WEIGHT_DEPRECATION)
    ELSE IF info[1].deprecated # None
         THEN Factor("Deprecation", 0, WEIGHT_DEPRECATION)
         ELSE Factor("Deprecation", WEIGHT_DEPRECATION, WEIGHT_DEPRECATION)

\* Math.max(score, 0) dropped.
MaintenanceFloorDropped(score) == score

MaintenanceFloor(score) == Max(score, 0)

\* Math.floor((Date.now() - published.getTime()) / (1000 * 60 * 60 * 24)) for a
\* date `hoursAgo` hours before Date.now().
DaysSince(hoursAgo) == hoursAgo \div 24

\* The penalty starts at 730 and at 365 days.
StalenessPenaltyInclusive(daysSince) ==
    IF daysSince >= 730 THEN 10
    ELSE IF daysSince >= 365 THEN 5
    ELSE 0

StalenessPenalty(daysSince) ==
    IF daysSince > 730 THEN 10
    ELSE IF daysSince > 365 THEN 5
    ELSE 0

\* lastPublish is <<>> (a string Date cannot parse) or <<h>>: a date h hours
\* before Date.now().
scoreMaintenance(info) ==
    IF info = None
    THEN Factor("Maintenance", WEIGHT_MAINTENANCE, WEIGHT_MAINTENANCE)
    ELSE LET i == info[1]
             staleness == IF i.lastPublish = None THEN 0
                          ELSE StalenessPenalty(DaysSince(i.lastPublish[1]))
             maintainers == IF i.maintainerCount = 0 THEN 5
                            ELSE IF i.maintainerCount = 1 THEN 2
                            ELSE 0
             downloads == IF i.weeklyDownloads < 100 THEN 3 ELSE 0
         IN  Factor("Maintenance",
                    MaintenanceFloor(WEIGHT_MAINTENANCE - staleness - maintainers - downloads),
                    WEIGHT_MAINTENANCE)

RECURSIVE SumScores(_)
SumScores(factors) ==
    IF factors = <<>> THEN 0 ELSE Head(factors).score + SumScores(Tail(factors))

\* >= where the code has >.
ActionForInclusive(totalScore) ==
    IF totalScore >= THRESHOLD_ALLOW THEN "ALLOW"
    ELSE IF totalScore >= THRESHOLD_WARN THEN "WARN"
    ELSE "BLOCK"

ActionFor(totalScore) ==
    IF totalScore > THRESHOLD_ALLOW THEN "ALLOW"
    ELSE IF totalScore > THRESHOLD_WARN THEN "WARN"
    ELSE "BLOCK"

calculateRiskScore(compat, sec, info) ==
    LET factors == <<scoreCompatibility(compat), scoreSecurity(sec),
                     scoreDeprecation(info), scoreMaintenance(info)>>
        totalScore == SumScores(factors)
    IN  [score |-> totalScore, action |-> ActionFor(totalScore), factors |-> factors]

(***************************************************************************)
(* semver.intersects on the range strings of the model.  A range is the    *)
(* set of the sample versions (major * 100 + minor * 10 + patch) that      *)
(* satisfy it; a string that is no semver range has no such set and makes  *)
(* new Range(...) throw a TypeError.                                       *)
(***************************************************************************)
SampleVersions == {1700, 1702, 1800, 1820}

ValidRanges == {"^17.0.0", "^17.0.2", "^18.0.0", "^18.2.0", ">=17.0.0 <19.0.0"}

RangeVersions(r) ==
    CASE r = "^17.0.0" -> {v \in SampleVersions : v >= 1700 /\ v < 1800}
      [] r = "^17.0.2" -> {v \in SampleVersions : v >= 1702 /\ v < 1800}
      [] r = "^18.0.0" -> {v \in SampleVersions : v >= 1800 /\ v < 1900}
      [] r = "^18.2.0" -> {v \in SampleVersions : v >= 1820 /\ v < 1900}
      [] r = ">=17.0.0 <19.0.0" -> {v \in SampleVersions : v >= 1700 /\ v < 1900}
      [] OTHER -> {}

RangeParses(r) == r \in ValidRanges

\* semver.intersects(r1, r2) for two ranges that parse.
Intersects(r1, r2) == RangeVersions(r1) \cap RangeVersions(r2) # {}

\* semver.intersects(r1, r2) throws: new Range(r1) or new Range(r2) does.
IntersectsThrows(r1, r2) == ~RangeParses(r1) \/ ~RangeParses(r2)

(***************************************************************************)
(* Peer dependency compatibility checker (checkers/compatibility.ts).      *)
(***************************************************************************)
DEFAULT_MAX_DEPTH == 3

\* f.depth: how many ancestors projectPath has (0: it is the filesystem root);
\* f.manifestAt: the levels (0 = projectPath, 1 = its parent, ...) that hold a
\* package.json.  The result is the level of the manifest found, or null.
RECURSIVE FindFrom(_, _, _, _)
RECURSIVE AccessedFrom(_, _, _, _)
FindFrom(f, current, i, maxDepth) ==
    IF i >= maxDepth THEN None
    ELSE IF current \in f.manifestAt THEN Some(current)
    ELSE IF current = f.depth THEN None
    ELSE FindFrom(f, current + 1, i + 1, maxDepth)

\* findPackageJson with one more turn of the loop.
findPackageJsonDeeper(f) == FindFrom(f, 0, 0, DEFAULT_MAX_DEPTH + 1)

findPackageJson(f) == FindFrom(f, 0, 0, DEFAULT_MAX_DEPTH)

\* The directories findPackageJson calls fs.access in, in the order of the
\* calls: the loop of FindFrom, recording each candidate.
AccessedFrom(f, current, i, maxDepth) ==
    IF i >= maxDepth THEN <<>>
    ELSE IF current \in f.manifestAt THEN <<current>>
    ELSE IF current = f.depth THEN <<current>>
    ELSE <<current>> \o AccessedFrom(f, current + 1, i + 1, maxDepth)

Accessed(f) == AccessedFrom(f, 0, 0, DEFAULT_MAX_DEPTH)

\* Object.assign(installed, dependencies) first: dependencies win a collision.
MergeDependenciesWin(deps, devDeps) ==
    [n \in DOMAIN deps \cup DOMAIN devDeps |->
        IF n \in DOMAIN deps THEN deps[n] ELSE devDeps[n]]

\* Object.assign(installed, dependencies); Object.assign(installed, devDependencies)
MergeInstalled(deps, devDeps) ==
    [n \in DOMAIN deps \cup DOMAIN devDeps |->
        IF n \in DOMAIN devDeps THEN devDeps[n] ELSE deps[n]]

\* pkg is the parsed package.json; a missing key is the empty map.
getInstalledPackages(pkg) == MergeInstalled(pkg.dependencies, pkg.devDependencies)

\* A peer that is not installed is reported COMPATIBLE.
PeerStatusAbsentIsCompatible(isInstalled, isOptional, overlaps) ==
    IF ~isInstalled THEN "COMPATIBLE"
    ELSE IF overlaps THEN "COMPATIBLE" ELSE "INCOMPATIBLE"

PeerStatus(isInstalled, isOptional, overlaps) ==
    IF ~isInstalled
    THEN IF isOptional THEN "OPTIONAL_MISSING" ELSE "MISSING"
    ELSE IF overlaps THEN "COMPATIBLE" ELSE "INCOMPATIBLE"

\* The required range without the double quotes around it.
FixPartUnquoted(peerName, requiredRange) == <<peerName, "@", requiredRange>>

\* `${peerName}@"${requiredRange}"`, as the pieces of the string
FixPart(peerName, requiredRange) == <<peerName, "@", "\"", requiredRange, "\"">>

\* A command for every peer that is not COMPATIBLE, the optional ones included.
PeerFixCommandForOptional(status, peerName, requiredRange) ==
    IF status # "COMPATIBLE"
    THEN Some(<<"npm install ">> \o FixPart(peerName, requiredRange))
    ELSE None

\* fixCommand: `npm install ${peerName}@"${requiredRange}"` or undefined
PeerFixCommand(status, peerName, requiredRange) ==
    IF status \in {"MISSING", "INCOMPATIBLE"}
    THEN Some(<<"npm install ">> \o FixPart(peerName, requiredRange))
    ELSE None

\* meta[peerName]?.optional === true
IsOptional(meta, peerName) == peerName \in DOMAIN meta /\ meta[peerName] = TRUE

\* One pass of the loop body for the peer entry <<peerName, requiredRange>>.
PeerCheck(entry, meta, inst) ==
    LET peerName == entry[1]
        requiredRange == entry[2]
        isInstalled == peerName \in DOMAIN inst
        overlaps == isInstalled /\ Intersects(inst[peerName], requiredRange)
        status == PeerStatus(isInstalled, IsOptional(meta, peerName), overlaps)
    IN  [name |-> peerName,
         required |-> requiredRange,
         installed |-> IF isInstalled THEN Some(inst[peerName]) ELSE None,
         status |-> status,
         fixCommand |-> PeerFixCommand(status, peerName, requiredRange)]

\* The loop throws at the first installed peer whose range, or whose required
\* range, semver cannot parse.
LoopThrows(peers, inst) ==
    \E i \in 1..Len(peers) :
        /\ peers[i][1] \in DOMAIN inst
        /\ IntersectsThrows(inst[peers[i][1]], peers[i][2])

IsFailing(check) == check.status \in {"MISSING", "INCOMPATIBLE"}

RECURSIVE JoinParts(_)
JoinParts(parts) ==
    IF parts = <<>> THEN <<>>
    ELSE IF Len(parts) = 1 THEN parts[1]
    ELSE parts[1] \o <<" ">> \o JoinParts(Tail(parts))

\* fixParts: one part per failing check, in order
RECURSIVE FixParts(_)
FixParts(checks) ==
    IF checks = <<>> THEN <<>>
    ELSE (IF IsFailing(Head(checks))
          THEN <<FixPart(Head(checks).name, Head(checks).required)>>
          ELSE <<>>) \o FixParts(Tail(checks))

\* The combined command lands on the last failing check.
AttachCombinedFixToLast(checks) ==
    LET fixParts == FixParts(checks)
        failing == {i \in 1..Len(checks) : IsFailing(checks[i])}
    IN  IF Len(fixParts) > 0 /\ failing # {}
        THEN LET last == CHOOSE i \in failing : \A j \in failing : i >= j
             IN  [checks EXCEPT ![last].fixCommand =
                     Some(<<"npm install ">> \o JoinParts(fixParts))]
        ELSE checks

\* Step 4: the combined command replaces the first failing check's own.
AttachCombinedFix(checks) ==
    LET fixParts == FixParts(checks)
        failing == {i \in 1..Len(checks) : IsFailing(checks[i])}
    IN  IF Len(fixParts) > 0 /\ failing # {}
        THEN LET first == CHOOSE i \in failing : \A j \in failing : i <= j
             IN  [checks EXCEPT ![first].fixCommand =
                     Some(<<"npm install ">> \o JoinParts(fixParts))]
        ELSE checks

\* Only COMPATIBLE counts: an absent optional peer makes the report incompatible.
AllCompatibleStrict(checks) ==
    \A i \in 1..Len(checks) : checks[i].status = "COMPATIBLE"

\* checks.every(c => c.status === 'COMPATIBLE' || c.status === 'OPTIONAL_MISSING')
AllCompatible(checks) ==
    \A i \in 1..Len(checks) : checks[i].status \in {"COMPATIBLE", "OPTIONAL_MISSING"}

\* The early return reports the package as incompatible.
EmptyReportIncompatible(name) ==
    [packageName |-> name, checks |-> <<>>, compatible |-> FALSE]

\* { packageName, checks: [], compatible: true }
EmptyReport(name) ==
    [packageName |-> name, checks |-> <<>>, compatible |-> TRUE]

\* Steps 3 and 4 of checkCompatibility when the loop does not throw.
CompatibilityReportOf(name, data, inst) ==
    LET checks == AttachCombinedFix(
                      [i \in 1..Len(data.peers) |-> PeerCheck(data.peers[i], data.meta, inst)])
    IN  [packageName |-> name, checks |-> checks, compatible |-> AllCompatible(checks)]

(***************************************************************************)
(* The file cache (utils/cache.ts).  Times are in hours.                   *)
(***************************************************************************)
DEFAULT_TTL == 24
SECURITY_CACHE_TTL == 168

Entry(data, timestamp, ttl) == [data |-> data, timestamp |-> timestamp, ttl |-> ttl]

\* An entry as old as its ttl counts as expired.
IsExpiredAtTtl(entry, t) == t - entry.timestamp >= entry.ttl

IsExpired(entry, t) == t - entry.timestamp > entry.ttl

\* What cache.get(key) returns at time t: the data, or null.
CacheGet(c, key, t) ==
    IF c[key] = None \/ IsExpired(c[key][1], t) THEN None ELSE Some(c[key][1].data)

\* What cache.get(key) leaves on disk: an expired entry is unlinked.
CacheAfterGet(c, key, t) ==
    IF c[key] # None /\ IsExpired(c[key][1], t) THEN [c EXCEPT ![key] = None] ELSE c

\* A set that leaves its own entry as the only one on disk.
CacheSetPurging(c, key, data, ttl, t) ==
    [k \in DOMAIN c |-> IF k = key THEN Some(Entry(data, t, ttl)) ELSE None]

CacheSet(c, key, data, ttl, t) == [c EXCEPT ![key] = Some(Entry(data, t, ttl))]

\* cache.del(key): the file is unlinked, if there is one.
CacheDel(c, key) == [c EXCEPT ![key] = None]

\* cache.clear(): every .json file of the directory is unlinked.
CacheClear(c) == [k \in DOMAIN c |-> None]

PeersKey(name) == "peers:" \o name
InfoKey(name) == "npminfo:" \o name
SecurityKey(name, version) == "security:" \o name \o "@" \o version

\* opt ?? default
OrElse(opt, default) == IF opt = None THEN default ELSE opt[1]

(***************************************************************************)
(* fetchPeerDependencies, after a successful response body was parsed.     *)
(***************************************************************************)
PeersResultOf(data) ==
    IF data.latest = None \/ data.versions = None THEN None
    ELSE IF data.latest[1] \notin DOMAIN data.versions[1] THEN None
    ELSE LET versionData == data.versions[1][data.latest[1]]
         IN  Some([peers |-> OrElse(versionData.peerDependencies, <<>>),
                   meta |-> OrElse(versionData.peerDependenciesMeta, <<>>),
                   resolvedVersion |-> data.latest[1]])

(***************************************************************************)
(* getPackageInfo, step 3: normalise the packument and the download count. *)
(***************************************************************************)
PackageInfoOf(name, r, weeklyDownloads) ==
    LET latestVersion == OrElse(r.latest, "0.0.0")
        hasVersionData == r.versions # None /\ latestVersion \in DOMAIN r.versions[1]
        deprecated == IF hasVersionData THEN r.versions[1][latestVersion].deprecated ELSE None
        lastPublish == IF r.time = None THEN None
                       ELSE IF latestVersion \in DOMAIN r.time[1]
                            THEN Some(r.time[1][latestVersion])
                       ELSE IF "modified" \in DOMAIN r.time[1]
                            THEN Some(r.time[1]["modified"])
                       ELSE None
    IN  [name |-> OrElse(r.name, name),
         version |-> latestVersion,
         deprecated |-> deprecated,
         lastPublish |-> lastPublish,
         weeklyDownloads |-> weeklyDownloads,
         maintainerCount |-> OrElse(r.maintainers, 0)]

(***************************************************************************)
(* checkSecurity (checkers/security.ts).  A CVSS score is kept in tenths;   *)
(* <<>> is a missing score or one parseFloat cannot read.                  *)
(***************************************************************************)
normalizeSeverity(score) ==
    IF score = None THEN "MODERATE"
    ELSE IF score[1] >= 90 THEN "CRITICAL"
    ELSE IF score[1] >= 70 THEN "HIGH"
    ELSE IF score[1] >= 40 THEN "MODERATE"
    ELSE "LOW"

EmptySecurityReport(name) ==
    [packageName |-> name, vulnerabilities |-> <<>>, hasCritical |-> FALSE]

SecurityReportOf(name, vulns) ==
    LET vulnerabilities == [i \in 1..Len(vulns) |->
                               [id |-> OrElse(vulns[i].id, "UNKNOWN"),
                                severity |-> normalizeSeverity(vulns[i].score)]]
    IN  [packageName |-> name,
         vulnerabilities |-> vulnerabilities,
         hasCritical |-> \E i \in 1..Len(vulnerabilities) :
                             vulnerabilities[i].severity = "CRITICAL"]

\* A response that is no parsed body: fetch threw, res.ok is false, or
\* res.json() threw.
IsFailure(response) == response.kind \in {"throws", "notOk", "badJson"}

(***************************************************************************)
(* The tasks.  Each action is one stretch of code between two awaits.      *)
(***************************************************************************)
envVars == <<packageName, now, fs, manifest>>
compatVars == <<cpc, pkgJsonPath, installed, peerData, compatibility>>
infoVars == <<ipc, reg, packageInfo>>
secVars == <<spc, secVersion, security>>
valVars == <<vpc, riskScore, result>>
histVars == <<requests, failed>>
cliVars == <<dryRun, noCache, cliPc, exitCode, pending, hasBlock, reported>>
cacheOpVars == <<got, lastSet>>

\* checkCompatibility, step 1: findPackageJson and the early return.
CFind ==
    /\ cpc = "find"
    /\ pkgJsonPath' = findPackageJson(fs)
    /\ IF pkgJsonPath' = None
       THEN /\ compatibility' = Some(EmptyReport(packageName))
            /\ cpc' = "done"
       ELSE /\ compatibility' = compatibility
            /\ cpc' = "read"
    /\ UNCHANGED <<installed, peerData, cache>>
    /\ UNCHANGED <<envVars, infoVars, secVars, valVars, histVars>>
    /\ UNCHANGED <<received, cache0, cliVars, cacheOpVars>>

\* getInstalledPackages: readFile or JSON.parse throws, and nothing catches it.
CRead ==
    /\ cpc = "read"
    /\ IF manifest[1].status = "ok"
       THEN /\ installed' = Some(getInstalledPackages(manifest[1]))
            /\ cpc' = "peersCacheGet"
       ELSE /\ installed' = installed
            /\ cpc' = "raised"
    /\ UNCHANGED <<pkgJsonPath, peerData, compatibility, cache>>
    /\ UNCHANGED <<envVars, infoVars, secVars, valVars, histVars>>
    /\ UNCHANGED <<received, cache0, cliVars, cacheOpVars>>

\* fetchPeerDependencies: cache.get and the return of a cached value.
CPeersCacheGet ==
    /\ cpc = "peersCacheGet"
    /\ LET cached == CacheGet(cache, PeersKey(packageName), now)
       IN  IF cached # None
           THEN /\ peerData' = cached
                /\ cpc' = "classify"
           ELSE /\ peerData' = peerData
                /\ cpc' = "peersFetch"
    /\ cache' = CacheAfterGet(cache, PeersKey(packageName), now)
    /\ UNCHANGED <<pkgJsonPath, installed, compatibility>>
    /\ UNCHANGED <<envVars, infoVars, secVars, valVars, histVars>>
    /\ UNCHANGED <<received, cache0, cliVars, cacheOpVars>>

\* fetchPeerDependencies: the registry request and the reading of its body.
CPeersFetch(Responses) ==
    /\ cpc = "peersFetch"
    /\ \E response \in Responses :
        /\ requests' = Append(requests, "peers")
        /\ received' = [received EXCEPT !.peers = Some(response)]
        /\ IF IsFailure(response)
           THEN /\ peerData' = None
                /\ cpc' = "classify"
                /\ failed' = failed \cup {"peers"}
           ELSE /\ peerData' = PeersResultOf(response.data)
                /\ cpc' = IF peerData' = None THEN "classify" ELSE "peersCacheSet"
                /\ failed' = failed
    /\ UNCHANGED <<pkgJsonPath, installed, compatibility, cache>>
    /\ UNCHANGED <<envVars, infoVars, secVars, valVars>>
    /\ UNCHANGED <<cache0, cliVars, cacheOpVars>>

\* fetchPeerDependencies: cache.set and the return of the result.
CPeersCacheSet ==
    /\ cpc = "peersCacheSet"
    /\ cache' = CacheSet(cache, PeersKey(packageName), peerData[1], DEFAULT_TTL, now)
    /\ cpc' = "classify"
    /\ UNCHANGED <<pkgJsonPath, installed, peerData, compatibility>>
    /\ UNCHANGED <<envVars, infoVars, secVars, valVars, histVars>>
    /\ UNCHANGED <<received, cache0, cliVars, cacheOpVars>>

\* checkCompatibility, steps 2 to 4: the second early return, the loop over
\* the peers, the combined fix command and the report.
CClassify ==
    /\ cpc = "classify"
    /\ IF peerData = None \/ Len(peerData[1].peers) = 0
       THEN /\ compatibility' = Some(EmptyReport(packageName))
            /\ cpc' = "done"
       ELSE IF LoopThrows(peerData[1].peers, installed[1])
       THEN /\ compatibility' = compatibility
            /\ cpc' = "raised"
       ELSE /\ compatibility' =
                   Some(CompatibilityReportOf(packageName, peerData[1], installed[1]))
            /\ cpc' = "done"
    /\ UNCHANGED <<pkgJsonPath, installed, peerData, cache>>
    /\ UNCHANGED <<envVars, infoVars, secVars, valVars, histVars>>
    /\ UNCHANGED <<received, cache0, cliVars, cacheOpVars>>

\* getPackageInfo: cache.get and the return of a cached value.
ICacheGet ==
    /\ ipc = "cacheGet"
    /\ LET cached == CacheGet(cache, InfoKey(packageName), now)
       IN  IF cached # None
           THEN /\ packageInfo' = cached
                /\ ipc' = "done"
           ELSE /\ packageInfo' = packageInfo
                /\ ipc' = "registry"
    /\ cache' = CacheAfterGet(cache, InfoKey(packageName), now)
    /\ UNCHANGED reg
    /\ UNCHANGED <<envVars, compatVars, secVars, valVars, histVars>>
    /\ UNCHANGED <<received, cache0, cliVars, cacheOpVars>>

\* getPackageInfo, step 1: the packument request and the reading of its body.
IRegistry(Responses) ==
    /\ ipc = "registry"
    /\ \E response \in Responses :
        /\ requests' = Append(requests, "info")
        /\ received' = [received EXCEPT !.info = Some(response)]
        /\ IF IsFailure(response)
           THEN /\ reg' = reg
                /\ ipc' = "done"
                /\ failed' = failed \cup {"info"}
           ELSE /\ reg' = Some(response.data)
                /\ ipc' = "downloads"
                /\ failed' = failed
    /\ UNCHANGED <<packageInfo, cache>>
    /\ UNCHANGED <<envVars, compatVars, secVars, valVars>>
    /\ UNCHANGED <<cache0, cliVars, cacheOpVars>>

\* getPackageInfo, steps 2 and 3: the downloads request, whose failure leaves
\* weeklyDownloads at 0, and the normalisation.
IDownloads(Responses) ==
    /\ ipc = "downloads"
    /\ \E response \in Responses :
        /\ requests' = Append(requests, "downloads")
        /\ received' = [received EXCEPT !.downloads = Some(response)]
        /\ LET weeklyDownloads == IF response.kind = "ok"
                                  THEN OrElse(response.downloads, 0)
                                  ELSE 0
           IN  packageInfo' = Some(PackageInfoOf(packageName, reg[1], weeklyDownloads))
        /\ failed' = IF IsFailure(response) THEN failed \cup {"downloads"} ELSE failed
    /\ ipc' = "cacheSet"
    /\ UNCHANGED <<reg, cache>>
    /\ UNCHANGED <<envVars, compatVars, secVars, valVars>>
    /\ UNCHANGED <<cache0, cliVars, cacheOpVars>>

\* getPackageInfo: cache.set and the return of the info.
ICacheSet ==
    /\ ipc = "cacheSet"
    /\ cache' = CacheSet(cache, InfoKey(packageName), packageInfo[1], DEFAULT_TTL, now)
    /\ ipc' = "done"
    /\ UNCHANGED <<reg, packageInfo>>
    /\ UNCHANGED <<envVars, compatVars, secVars, valVars, histVars>>
    /\ UNCHANGED <<received, cache0, cliVars, cacheOpVars>>

\* checkSecurity: cache.get and the return of a cached report.
SCacheGet ==
    /\ spc = "cacheGet"
    /\ LET cached == CacheGet(cache, SecurityKey(packageName, secVersion), now)
       IN  IF cached # None
           THEN /\ security' = cached
                /\ spc' = "done"
           ELSE /\ security' = security
                /\ spc' = "query"
    /\ cache' = CacheAfterGet(cache, SecurityKey(packageName, secVersion), now)
    /\ UNCHANGED secVersion
    /\ UNCHANGED <<envVars, compatVars, infoVars, valVars, histVars>>
    /\ UNCHANGED <<received, cache0, cliVars, cacheOpVars>>

\* checkSecurity: the OSV query and the reading of its body.
SQuery(Responses) ==
    /\ spc = "query"
    /\ \E response \in Responses :
        /\ requests' = Append(requests, "osv")
        /\ received' = [received EXCEPT !.osv = Some(response)]
        /\ IF IsFailure(response)
           THEN /\ security' = Some(EmptySecurityReport(packageName))
                /\ spc' = "done"
                /\ failed' = failed \cup {"osv"}
           ELSE /\ security' =
                       IF response.vulns = None \/ Len(OrElse(response.vulns, <<>>)) = 0
                       THEN Some(EmptySecurityReport(packageName))
                       ELSE Some(SecurityReportOf(packageName, response.vulns[1]))
                /\ spc' = "cacheSet"
                /\ failed' = failed
    /\ UNCHANGED <<secVersion, cache>>
    /\ UNCHANGED <<envVars, compatVars, infoVars, valVars>>
    /\ UNCHANGED <<cache0, cliVars, cacheOpVars>>

\* checkSecurity: cache.set and the return of the report.
SCacheSet ==
    /\ spc = "cacheSet"
    /\ cache' = CacheSet(cache, SecurityKey(packageName, secVersion), security[1],
                         SECURITY_CACHE_TTL, now)
    /\ spc' = "done"
    /\ UNCHANGED <<secVersion, security>>
    /\ UNCHANGED <<envVars, compatVars, infoVars, valVars, histVars>>
    /\ UNCHANGED <<received, cache0, cliVars, cacheOpVars>>

(***************************************************************************)
(* validatePackage (validator.ts).                                         *)
(***************************************************************************)
\* Promise.all([checkCompatibility(...), getPackageInfo(...)]): both calls
\* are made, each running up to its first await, before the await.
VStart ==
    /\ vpc = "start"
    /\ cpc' = "find"
    /\ ipc' = "cacheGet"
    /\ vpc' = "await"
    /\ UNCHANGED <<pkgJsonPath, installed, peerData, compatibility, reg, packageInfo,
                   riskScore, result, cache>>
    /\ UNCHANGED <<envVars, secVars, histVars>>
    /\ UNCHANGED <<received, cache0, cliVars, cacheOpVars>>

\* The security check is always asked about "latest".
ResolvedVersionAlwaysLatest(info) == "latest"

\* packageInfo?.version ?? 'latest'
ResolvedVersion(info) == IF info = None THEN "latest" ELSE info[1].version

\* checkSecurity is called as soon as checkCompatibility has returned,
\* whether or not getPackageInfo has.
VSecurityBeforeInfo ==
    /\ vpc = "await"
    /\ cpc = "done"
    /\ secVersion' = ResolvedVersion(packageInfo)
    /\ spc' = "cacheGet"
    /\ vpc' = "security"
    /\ UNCHANGED <<security, riskScore, result, cache>>
    /\ UNCHANGED <<envVars, compatVars, infoVars, histVars>>
    /\ UNCHANGED <<received, cache0, cliVars, cacheOpVars>>

\* Both promises fulfilled: version = packageInfo?.version ?? 'latest', and
\* the call of checkSecurity.
VSecurity ==
    /\ vpc = "await"
    /\ cpc = "done"
    /\ ipc = "done"
    /\ secVersion' = ResolvedVersion(packageInfo)
    /\ spc' = "cacheGet"
    /\ vpc' = "security"
    /\ UNCHANGED <<security, riskScore, result, cache>>
    /\ UNCHANGED <<envVars, compatVars, infoVars, histVars>>
    /\ UNCHANGED <<received, cache0, cliVars, cacheOpVars>>

\* checkCompatibility rejected: Promise.all rejects and validatePackage,
\* which has no try, rejects with it.
VReject ==
    /\ vpc = "await"
    /\ cpc = "raised"
    /\ vpc' = "raised"
    /\ UNCHANGED <<riskScore, result, cache>>
    /\ UNCHANGED <<envVars, compatVars, infoVars, secVars, histVars>>
    /\ UNCHANGED <<received, cache0, cliVars, cacheOpVars>>

\* The top-level action is ALLOW whatever the score says.
ValidationResultAllowing(name, compat, info, sec, score) ==
    [packageName |-> name,
     compatibility |-> compat,
     packageInfo |-> info,
     security |-> sec,
     riskScore |-> score,
     action |-> "ALLOW"]

\* { packageName, compatibility, packageInfo, security, riskScore,
\*   action: riskScore.action }
ValidationResultOf(name, compat, info, sec, score) ==
    [packageName |-> name,
     compatibility |-> compat,
     packageInfo |-> info,
     security |-> sec,
     riskScore |-> score,
     action |-> score.action]

\* The security report is in: the risk score and the combined result.
VReturn ==
    /\ vpc = "security"
    /\ spc = "done"
    /\ riskScore' = Some(calculateRiskScore(compatibility[1], security[1], packageInfo))
    /\ result' = Some(ValidationResultOf(packageName, compatibility[1], packageInfo,
                                         security[1], riskScore'[1]))
    /\ vpc' = "done"
    /\ UNCHANGED cache
    /\ UNCHANGED <<envVars, compatVars, infoVars, secVars, histVars>>
    /\ UNCHANGED <<received, cache0, cliVars, cacheOpVars>>

\* calculateRiskScore called on its own, with three reports in hand.
CalculateRiskScore ==
    /\ vpc = "scoring"
    /\ riskScore' = Some(calculateRiskScore(compatibility[1], security[1], packageInfo))
    /\ vpc' = "scored"
    /\ UNCHANGED <<result, cache>>
    /\ UNCHANGED <<envVars, compatVars, infoVars, secVars, histVars>>
    /\ UNCHANGED <<received, cache0, cliVars, cacheOpVars>>

(***************************************************************************)
(* The command line (index.ts): reportResult and the check command.        *)
(***************************************************************************)
\* if (value): false and the empty string are falsy.
Truthy(value) == value # None /\ value[1] # ""

\* The line of the PACKAGE INFO section that tells of deprecation.
DeprecationLine(info) ==
    IF info = None THEN "Could not fetch package information from npm."
    ELSE IF Truthy(info[1].deprecated) THEN "DEPRECATED"
    ELSE "Not deprecated."

\* What reportResult prints that the properties look at.
ReportOf(res) ==
    [packageName |-> res.packageName,
     deprecation |-> DeprecationLine(res.packageInfo),
     score |-> res.riskScore.score,
     action |-> res.action]

\* --dry-run is not looked at.
ExitsInReportIgnoringDryRun(isDryRun, action) == action = "BLOCK"

\* reportResult, step 5: process.exit(1)
ExitsInReport(isDryRun, action) == ~isDryRun /\ action = "BLOCK"

\* check <package>: the action calls validatePackage(pkg, options.projectPath).
CheckStart ==
    /\ cliPc = "check"
    /\ vpc = "idle"
    /\ vpc' = "start"
    /\ cliPc' = "validating"
    /\ UNCHANGED <<riskScore, result, cache, received, cache0>>
    /\ UNCHANGED <<dryRun, noCache, exitCode, pending, hasBlock, reported>>
    /\ UNCHANGED <<envVars, compatVars, infoVars, secVars, histVars, cacheOpVars>>

\* check <package>: validatePackage fulfilled; reportResult(result, options.dryRun)
\* exits with 1, or returns and the process ends with 0.
CheckReport ==
    /\ cliPc = "validating"
    /\ vpc = "done"
    /\ reported' = Append(reported, ReportOf(result[1]))
    /\ exitCode' = IF ExitsInReport(dryRun, result[1].action) THEN Some(1) ELSE Some(0)
    /\ cliPc' = "exited"
    /\ UNCHANGED <<dryRun, noCache, pending, hasBlock, received, cache0, cache>>
    /\ UNCHANGED <<envVars, compatVars, infoVars, secVars, valVars, histVars, cacheOpVars>>

\* check <package>: validatePackage rejected; the catch exits with 1.
CheckFail ==
    /\ cliPc = "validating"
    /\ vpc = "raised"
    /\ exitCode' = Some(1)
    /\ cliPc' = "exited"
    /\ UNCHANGED <<dryRun, noCache, pending, hasBlock, reported, received, cache0, cache>>
    /\ UNCHANGED <<envVars, compatVars, infoVars, secVars, valVars, histVars, cacheOpVars>>

(***************************************************************************)
(* The command line (index.ts): the check-file command.                    *)
(***************************************************************************)
NothingReceived == [peers |-> None, info |-> None, downloads |-> None, osv |-> None]

\* Object.keys({ ...dependencies, ...devDependencies }): the names of
\* dependencies in their order, then those only devDependencies has.
KeysOfMerge(deps, devDeps) ==
    deps \o SelectSeq(devDeps, LAMBDA n : \A i \in 1..Len(deps) : deps[i] # n)

\* check-file <path>: the file is read and parsed; a failure ends in the catch.
FileRead(Files) ==
    /\ cliPc = "checkFile"
    /\ \E file \in Files :
        IF file.status = "ok"
        THEN /\ pending' = KeysOfMerge(file.dependencies, file.devDependencies)
             /\ cliPc' = "loop"
             /\ exitCode' = exitCode
        ELSE /\ pending' = pending
             /\ cliPc' = "exited"
             /\ exitCode' = Some(1)
    /\ UNCHANGED <<dryRun, noCache, hasBlock, reported, received, cache0, cache>>
    /\ UNCHANGED <<envVars, compatVars, infoVars, secVars, valVars, histVars, cacheOpVars>>

\* check-file <path>: the loop takes the next name and calls validatePackage(pkg).
FileNext ==
    /\ cliPc = "loop"
    /\ pending # <<>>
    /\ packageName' = Head(pending)
    /\ vpc' = "start"
    /\ cpc' = "idle"
    /\ ipc' = "idle"
    /\ spc' = "idle"
    /\ pkgJsonPath' = None
    /\ installed' = None
    /\ peerData' = None
    /\ compatibility' = None
    /\ reg' = None
    /\ packageInfo' = None
    /\ secVersion' = ""
    /\ security' = None
    /\ riskScore' = None
    /\ result' = None
    /\ requests' = <<>>
    /\ failed' = {}
    /\ received' = NothingReceived
    /\ cache0' = cache
    /\ cliPc' = "validating"
    /\ UNCHANGED <<now, fs, manifest, cache>>
    /\ UNCHANGED <<dryRun, noCache, exitCode, pending, hasBlock, reported, cacheOpVars>>

\* check-file <path>: validatePackage fulfilled; reportResult(result, true),
\* which never exits, and hasBlock.
FileReport ==
    /\ cliPc = "validating"
    /\ vpc = "done"
    /\ reported' = Append(reported, ReportOf(result[1]))
    /\ hasBlock' = (hasBlock \/ result[1].action = "BLOCK")
    /\ pending' = Tail(pending)
    /\ cliPc' = "loop"
    /\ UNCHANGED <<dryRun, noCache, exitCode, received, cache0, cache>>
    /\ UNCHANGED <<envVars, compatVars, infoVars, secVars, valVars, histVars, cacheOpVars>>

\* check-file <path>: the loop is over; exit 1 under !options.dryRun && hasBlock.
FileDone ==
    /\ cliPc = "loop"
    /\ pending = <<>>
    /\ exitCode' = IF ~dryRun /\ hasBlock THEN Some(1) ELSE Some(0)
    /\ cliPc' = "exited"
    /\ UNCHANGED <<dryRun, noCache, pending, hasBlock, reported, received, cache0, cache>>
    /\ UNCHANGED <<envVars, compatVars, infoVars, secVars, valVars, histVars, cacheOpVars>>

\* check-file <path>: validatePackage rejected inside the loop; the catch
\* exits with 1.
FileFail ==
    /\ cliPc = "validating"
    /\ vpc = "raised"
    /\ exitCode' = Some(1)
    /\ cliPc' = "exited"
    /\ UNCHANGED <<dryRun, noCache, pending, hasBlock, reported, received, cache0, cache>>
    /\ UNCHANGED <<envVars, compatVars, infoVars, secVars, valVars, histVars, cacheOpVars>>

(***************************************************************************)
(* The inputs: package names, manifests, directory trees, cache contents   *)
(* and provider responses the model draws from.                            *)
(***************************************************************************)
PartialMaps(K, V) == UNION {[D -> V] : D \in SUBSET K}

PeerNames == {"react", "react-dom"}
InstalledRanges == {"^17.0.2", "^18.2.0", "workspace:*"}
RequiredRanges == {"^18.0.0", "not-a-range"}

Now0 == 2 * SECURITY_CACHE_TTL

Manifest(status, deps, devDeps) ==
    [status |-> status, dependencies |-> deps, devDependencies |-> devDeps]

BrokenManifests == {Manifest(st, <<>>, <<>>) : st \in {"readError", "invalidJson"}}

ManifestsWide ==
    BrokenManifests \cup
    {Manifest("ok", d, e) : d \in PartialMaps(PeerNames, InstalledRanges),
                            e \in PartialMaps({"react"}, InstalledRanges)}

ManifestsNarrow ==
    {Manifest("invalidJson", <<>>, <<>>),
     Manifest("ok", [n \in {"react"} |-> "^17.0.2"], <<>>),
     Manifest("ok", [n \in {"react"} |-> "workspace:*"], <<>>)}

Tree(depth, manifestAt) == [depth |-> depth, manifestAt |-> manifestAt]

\* no manifest; one in projectPath; one only above the directories searched
TreesNarrow == {Tree(MaxDepth, {}), Tree(MaxDepth, {0}), Tree(MaxDepth, {MaxDepth})}

VersionData(peers, meta, deprecated) ==
    [peerDependencies |-> peers, peerDependenciesMeta |-> meta, deprecated |-> deprecated]

Packument(name, latest, versions, time, maintainers) ==
    [name |-> name, latest |-> latest, versions |-> versions, time |-> time,
     maintainers |-> maintainers]

\* A packument whose latest version 1.0.0 declares the given peers.
PeersPackument(peers, meta) ==
    Packument(None, Some("1.0.0"), Some([v \in {"1.0.0"} |-> VersionData(peers, meta, None)]),
              None, None)

NoBody == Packument(None, None, None, None, None)

Failures == {[kind |-> k, data |-> NoBody] : k \in {"throws", "notOk", "badJson"}}

Ok(data) == [kind |-> "ok", data |-> data]

\* The peerDependencies objects: up to two distinct names, in either order.
PeerEntries ==
    {<<>>} \cup
    {<<<<n, r>>>> : n \in PeerNames, r \in RequiredRanges} \cup
    {<<<<nn[1], r1>>, <<nn[2], r2>>>> :
        nn \in {pair \in PeerNames \X PeerNames : pair[1] # pair[2]},
        r1 \in RequiredRanges, r2 \in RequiredRanges}

PeersResponsesWide ==
    Failures \cup
    {Ok(NoBody),
     Ok(Packument(None, Some("1.0.0"), None, None, None)),
     Ok(Packument(None, Some("2.0.0"),
                  Some([v \in {"1.0.0"} |-> VersionData(None, None, None)]), None, None)),
     Ok(PeersPackument(None, None))} \cup
    {Ok(PeersPackument(Some(p), Some(m))) :
        p \in PeerEntries, m \in PartialMaps(PeerNames, BOOLEAN)}

PeersResponsesNarrow ==
    {[kind |-> k, data |-> NoBody] : k \in {"throws", "notOk"}} \cup
    {Ok(PeersPackument(None, None)),
     Ok(PeersPackument(Some(<<<<"react", "^18.0.0">>>>), None)),
     Ok(PeersPackument(Some(<<<<"react", "^18.0.0">>, <<"react-dom", "^18.0.0">>>>),
                       Some([n \in {"react-dom"} |-> TRUE])))}

CachedPeers ==
    [peers |-> <<<<"react", "^18.0.0">>>>, meta |-> <<>>, resolvedVersion |-> "1.0.0"]

\* A packument published `hoursAgo` hours ago, with its deprecation and maintainers.
InfoPackument(deprecated, hoursAgo, maintainers) ==
    Packument(None, Some("1.0.0"),
              Some([v \in {"1.0.0"} |-> VersionData(None, None, deprecated)]),
              Some([v \in {"1.0.0"} |-> hoursAgo]), Some(maintainers))

InfoResponsesNarrow ==
    {[kind |-> k, data |-> NoBody] : k \in {"throws", "notOk"}} \cup
    {Ok(InfoPackument(None, 10 * 24, 3)),
     Ok(InfoPackument(Some("use X instead"), 800 * 24, 1))}

\* The narrow responses, and a latest version whose deprecated field is "".
InfoResponsesCheck ==
    InfoResponsesNarrow \cup {Ok(InfoPackument(Some(""), 10 * 24, 3))}

DownloadsResponsesNarrow ==
    {[kind |-> "throws", downloads |-> None],
     [kind |-> "notOk", downloads |-> None],
     [kind |-> "ok", downloads |-> Some(5000)]}

CachedInfo == PackageInfoOf("some-pkg", InfoPackument(None, 10 * 24, 3), 5000)

OsvResponsesNarrow ==
    {[kind |-> "throws", vulns |-> None],
     [kind |-> "notOk", vulns |-> None],
     [kind |-> "ok", vulns |-> None],
     [kind |-> "ok", vulns |-> Some(<<[id |-> Some("GHSA-1"), score |-> Some(98)]>>)]}

CachedSecurity ==
    SecurityReportOf("some-pkg", <<[id |-> Some("GHSA-2"), score |-> Some(75)]>>)

PackageNamesWide == {"some-pkg", "left-pad"}
PackageNamesNarrow == {"some-pkg"}

KnownVersions == {"1.0.0", "0.0.0", "latest"}

CacheKeys ==
    UNION {{PeersKey(n), InfoKey(n)} \cup {SecurityKey(n, v) : v \in KnownVersions} :
           n \in PackageNamesWide}

EmptyCache == [k \in CacheKeys |-> None]

\* An entry written `age` hours before Now0.
Aged(data, age, ttl) == Some(Entry(data, Now0 - age, ttl))

\* The peers entry of some-pkg: absent, at the end of its life, or expired.
CachesCompat ==
    {EmptyCache,
     [EmptyCache EXCEPT !["peers:some-pkg"] = Aged(CachedPeers, DEFAULT_TTL, DEFAULT_TTL)],
     [EmptyCache EXCEPT !["peers:some-pkg"] = Aged(CachedPeers, DEFAULT_TTL + 1, DEFAULT_TTL)]}

\* Each of the three entries of some-pkg absent or live.
CachesNarrow ==
    {[k \in CacheKeys |->
        IF k = "peers:some-pkg" /\ p THEN Aged(CachedPeers, 1, DEFAULT_TTL)
        ELSE IF k = "npminfo:some-pkg" /\ i THEN Aged(CachedInfo, 1, DEFAULT_TTL)
        ELSE IF k = "security:some-pkg@1.0.0" /\ c
             THEN Aged(CachedSecurity, 1, SECURITY_CACHE_TTL)
        ELSE None] : p \in BOOLEAN, i \in BOOLEAN, c \in BOOLEAN}

(***************************************************************************)
(* The reports handed to calculateRiskScore when it is called on its own.  *)
(***************************************************************************)
ScoreNames == <<"react", "react-dom", "typescript", "eslint">>

\* A check as checkCompatibility builds it for a peer of the given status.
CheckOfStatus(status, i) ==
    [name |-> ScoreNames[i],
     required |-> "^18.0.0",
     installed |-> CASE status = "COMPATIBLE" -> Some("^18.2.0")
                     [] status = "INCOMPATIBLE" -> Some("^17.0.2")
                     [] OTHER -> None,
     status |-> status,
     fixCommand |-> PeerFixCommand(status, ScoreNames[i], "^18.0.0")]

ReportOfStatuses(name, statuses) ==
    LET checks == AttachCombinedFix([i \in 1..Len(statuses) |-> CheckOfStatus(statuses[i], i)])
    IN  [packageName |-> name, checks |-> checks, compatible |-> AllCompatible(checks)]

ScoreReports == {ReportOfStatuses("some-pkg", st) : st \in SeqsUpTo(Statuses, MaxChecks)}

SecurityReportOfSeverities(name, sevs) ==
    [packageName |-> name,
     vulnerabilities |-> [i \in 1..Len(sevs) |-> [id |-> "GHSA", severity |-> sevs[i]]],
     hasCritical |-> \E i \in 1..Len(sevs) : sevs[i] = "CRITICAL"]

ScoreSecurityReports ==
    {SecurityReportOfSeverities("some-pkg", sv) : sv \in SeqsUpTo(Severities, MaxVulns)}

ScoreInfos ==
    {None} \cup
    {Some([name |-> "some-pkg", version |-> "1.0.0", deprecated |-> d, lastPublish |-> p,
           weeklyDownloads |-> w, maintainerCount |-> m]) :
        d \in {None, Some("use X instead")},
        p \in {None, Some(365 * 24), Some(366 * 24), Some(730 * 24 + 23), Some(731 * 24)},
        w \in {99, 100},
        m \in {0, 1, 2}}

\* Package infos that differ in deprecation and in the date of the last publish.
DatedInfos ==
    {None} \cup
    {Some([name |-> "some-pkg", version |-> "1.0.0", deprecated |-> d, lastPublish |-> p,
           weeklyDownloads |-> 100, maintainerCount |-> 1]) :
        d \in {None, Some("use X instead")},
        p \in {Some(365 * 24), Some(730 * 24 + 23)}}

\* n checks, or n vulnerabilities, of the same status or severity.
Run(v, n) == [i \in 1..n |-> v]

\* The i-th check of a report built from counts.
CountedCheck(status, i) ==
    [name |-> "peer-" \o ToString(i),
     required |-> "^18.0.0",
     installed |-> CASE status = "COMPATIBLE" -> Some("^18.2.0")
                     [] status = "INCOMPATIBLE" -> Some("^17.0.2")
                     [] OTHER -> None,
     status |-> status,
     fixCommand |-> PeerFixCommand(status, "peer-" \o ToString(i), "^18.0.0")]

\* A report of m MISSING, i INCOMPATIBLE, o OPTIONAL_MISSING and c COMPATIBLE checks.
CountedReport(name, m, i, o, c) ==
    LET statuses == Run("MISSING", m) \o Run("INCOMPATIBLE", i)
                    \o Run("OPTIONAL_MISSING", o) \o Run("COMPATIBLE", c)
        checks == AttachCombinedFix([k \in 1..Len(statuses) |-> CountedCheck(statuses[k], k)])
    IN  [packageName |-> name, checks |-> checks, compatible |-> AllCompatible(checks)]

CountedReports ==
    {CountedReport("some-pkg", q[1], q[2], q[3], q[4]) :
        q \in {n \in (0..MaxPeers) \X (0..MaxPeers) \X (0..MaxPeers) \X (0..MaxPeers) :
                  n[1] + n[2] + n[3] + n[4] <= MaxPeers}}

\* A report of c CRITICAL, h HIGH, m MODERATE and l LOW vulnerabilities.
CountedSecurityReport(name, c, h, m, l) ==
    SecurityReportOfSeverities(name, Run("CRITICAL", c) \o Run("HIGH", h)
                                     \o Run("MODERATE", m) \o Run("LOW", l))

CountedSecurityReports ==
    {CountedSecurityReport("some-pkg", c, h, m, l) :
        c \in 0..MaxPerSeverity, h \in 0..MaxPerSeverity,
        m \in 0..MaxPerSeverity, l \in 0..MaxPerSeverity}

(***************************************************************************)
(* Initial states and specifications.                                      *)
(***************************************************************************)
InitEnv(Names, Trees, Manifests, Caches) ==
    /\ packageName \in Names
    /\ now = Now0
    /\ fs \in Trees
    /\ manifest \in IF findPackageJson(fs) = None THEN {None}
                    ELSE {Some(m) : m \in Manifests}
    /\ cache \in Caches

\* The locals of a validation that has not begun.
InitCall ==
    /\ pkgJsonPath = None
    /\ installed = None
    /\ peerData = None
    /\ reg = None
    /\ secVersion = ""
    /\ riskScore = None
    /\ result = None
    /\ requests = <<>>
    /\ failed = {}
    /\ received = NothingReceived
    /\ cache0 = cache

\* No command of the CLI is running.
NoCli ==
    /\ dryRun = FALSE
    /\ noCache = FALSE
    /\ cliPc = "idle"
    /\ exitCode = None
    /\ pending = <<>>
    /\ hasBlock = FALSE
    /\ reported = <<>>

\* The cache is not called directly.
NoCacheOps ==
    /\ got = None
    /\ lastSet = [k \in CacheKeys |-> None]

InitLocals ==
    /\ InitCall
    /\ NoCli
    /\ NoCacheOps

\* validatePackage(packageName, projectPath) is called.
Init ==
    /\ InitEnv(PackageNamesNarrow, TreesNarrow, ManifestsNarrow, CachesNarrow)
    /\ InitLocals
    /\ compatibility = None
    /\ packageInfo = None
    /\ security = None
    /\ vpc = "start"
    /\ cpc = "idle"
    /\ ipc = "idle"
    /\ spc = "idle"

Next ==
    \/ VStart
    \/ CFind
    \/ CRead
    \/ CPeersCacheGet
    \/ CPeersFetch(PeersResponsesNarrow)
    \/ CPeersCacheSet
    \/ CClassify
    \/ ICacheGet
    \/ IRegistry(InfoResponsesNarrow)
    \/ IDownloads(DownloadsResponsesNarrow)
    \/ ICacheSet
    \/ VSecurity
    \/ VReject
    \/ SCacheGet
    \/ SQuery(OsvResponsesNarrow)
    \/ SCacheSet
    \/ VReturn

Spec == Init /\ [][Next]_vars

\* A step of the validation a command waits for.
ValidationStep(InfoResponses) ==
    \/ VStart
    \/ CFind
    \/ CRead
    \/ CPeersCacheGet
    \/ CPeersFetch(PeersResponsesNarrow)
    \/ CPeersCacheSet
    \/ CClassify
    \/ ICacheGet
    \/ IRegistry(InfoResponses)
    \/ IDownloads(DownloadsResponsesNarrow)
    \/ ICacheSet
    \/ VSecurity
    \/ VReject
    \/ SCacheGet
    \/ SQuery(OsvResponsesNarrow)
    \/ SCacheSet
    \/ VReturn

\* dependency-guard check <package> [--dry-run] [--no-cache] is run.
InitCheck ==
    /\ InitEnv(PackageNamesNarrow, TreesNarrow, ManifestsNarrow, CachesNarrow)
    /\ InitCall
    /\ NoCacheOps
    /\ compatibility = None
    /\ packageInfo = None
    /\ security = None
    /\ vpc = "idle"
    /\ cpc = "idle"
    /\ ipc = "idle"
    /\ spc = "idle"
    /\ dryRun \in BOOLEAN
    /\ noCache \in BOOLEAN
    /\ cliPc = "check"
    /\ exitCode = None
    /\ pending = <<>>
    /\ hasBlock = FALSE
    /\ reported = <<>>

NextCheck ==
    \/ CheckStart
    \/ cliPc = "validating" /\ ValidationStep(InfoResponsesCheck)
    \/ CheckReport
    \/ CheckFail

SpecCheck == InitCheck /\ [][NextCheck]_vars

(***************************************************************************)
(* The cache called directly (utils/cache.ts): set, get, del, clear, and   *)
(* the clock.                                                              *)
(***************************************************************************)
\* await cache.set(key, data, ttl)
CacheOpSet(Keys, Data, Ttls) ==
    /\ cliPc = "cache"
    /\ \E key \in Keys, data \in Data, ttl \in Ttls :
        /\ cache' = CacheSet(cache, key, data, ttl, now)
        /\ lastSet' = [lastSet EXCEPT ![key] = Some(Entry(data, now, ttl))]
    /\ got' = None
    /\ UNCHANGED <<envVars, compatVars, infoVars, secVars, valVars, histVars>>
    /\ UNCHANGED <<received, cache0, cliVars>>

\* await cache.get(key)
CacheOpGet(Keys) ==
    /\ cliPc = "cache"
    /\ \E key \in Keys :
        /\ got' = Some([key |-> key, value |-> CacheGet(cache, key, now)])
        /\ cache' = CacheAfterGet(cache, key, now)
    /\ UNCHANGED lastSet
    /\ UNCHANGED <<envVars, compatVars, infoVars, secVars, valVars, histVars>>
    /\ UNCHANGED <<received, cache0, cliVars>>

\* await cache.del(key)
CacheOpDel(Keys) ==
    /\ cliPc = "cache"
    /\ \E key \in Keys :
        /\ cache' = CacheDel(cache, key)
        /\ lastSet' = [lastSet EXCEPT ![key] = None]
    /\ got' = None
    /\ UNCHANGED <<envVars, compatVars, infoVars, secVars, valVars, histVars>>
    /\ UNCHANGED <<received, cache0, cliVars>>

\* await cache.clear()
CacheOpClear ==
    /\ cliPc = "cache"
    /\ cache' = CacheClear(cache)
    /\ lastSet' = [k \in DOMAIN lastSet |-> None]
    /\ got' = None
    /\ UNCHANGED <<envVars, compatVars, infoVars, secVars, valVars, histVars>>
    /\ UNCHANGED <<received, cache0, cliVars>>

\* An hour passes between two calls (Date.now()).
Tick ==
    /\ cliPc = "cache"
    /\ now < Now0 + MaxTicks
    /\ now' = now + 1
    /\ got' = None
    /\ UNCHANGED <<packageName, fs, manifest, cache, lastSet>>
    /\ UNCHANGED <<compatVars, infoVars, secVars, valVars, histVars>>
    /\ UNCHANGED <<received, cache0, cliVars>>

\* The keys, values and ttls (hours) the cache is called with.
OpKeys == {PeersKey("some-pkg"), InfoKey("some-pkg")}
OpData == {"a", "b"}
OpTtls == {0, 1, 2}

\* A program that only calls the cache, on an empty cache directory.
InitCache ==
    /\ InitEnv(PackageNamesNarrow, {Tree(MaxDepth, {})}, ManifestsNarrow, {EmptyCache})
    /\ InitCall
    /\ NoCacheOps
    /\ compatibility = None
    /\ packageInfo = None
    /\ security = None
    /\ vpc = "idle"
    /\ cpc = "idle"
    /\ ipc = "idle"
    /\ spc = "idle"
    /\ dryRun = FALSE
    /\ noCache = FALSE
    /\ cliPc = "cache"
    /\ exitCode = None
    /\ pending = <<>>
    /\ hasBlock = FALSE
    /\ reported = <<>>

NextCache ==
    \/ CacheOpSet(OpKeys, OpData, OpTtls)
    \/ CacheOpGet(OpKeys)
    \/ CacheOpDel(OpKeys)
    \/ CacheOpClear
    \/ Tick

SpecCache == InitCache /\ [][NextCache]_vars

\* The files check-file is pointed at.
ScannedFiles ==
    {Manifest("readError", <<>>, <<>>),
     Manifest("ok", <<>>, <<>>),
     Manifest("ok", <<"some-pkg">>, <<>>),
     Manifest("ok", <<"some-pkg">>, <<"left-pad", "some-pkg">>),
     Manifest("ok", <<"left-pad", "some-pkg">>, <<>>)}

\* dependency-guard check-file <path> [--dry-run] is run in a directory with
\* a package.json, or without one.
InitCheckFile ==
    /\ InitEnv(PackageNamesNarrow, {Tree(MaxDepth, {}), Tree(MaxDepth, {0})},
               ManifestsNarrow, {EmptyCache})
    /\ InitCall
    /\ NoCacheOps
    /\ compatibility = None
    /\ packageInfo = None
    /\ security = None
    /\ vpc = "idle"
    /\ cpc = "idle"
    /\ ipc = "idle"
    /\ spc = "idle"
    /\ dryRun \in BOOLEAN
    /\ noCache = FALSE
    /\ cliPc = "checkFile"
    /\ exitCode = None
    /\ pending = <<>>
    /\ hasBlock = FALSE
    /\ reported = <<>>

NextCheckFile ==
    \/ FileRead(ScannedFiles)
    \/ FileNext
    \/ cliPc = "validating" /\ ValidationStep(InfoResponsesNarrow)
    \/ FileReport
    \/ FileDone
    \/ FileFail

SpecCheckFile == InitCheckFile /\ [][NextCheckFile]_vars

\* checkCompatibility(packageName, projectPath) is called on its own.
InitCompat ==
    /\ InitEnv(PackageNamesWide, TreesNarrow, ManifestsWide, CachesCompat)
    /\ InitLocals
    /\ compatibility = None
    /\ packageInfo = None
    /\ security = None
    /\ vpc = "idle"
    /\ cpc = "find"
    /\ ipc = "idle"
    /\ spc = "idle"

NextCompat ==
    \/ CFind
    \/ CRead
    \/ CPeersCacheGet
    \/ CPeersFetch(PeersResponsesWide)
    \/ CPeersCacheSet
    \/ CClassify

SpecCompat == InitCompat /\ [][NextCompat]_vars

\* Every directory tree of at most MaxDepth ancestors, with a package.json in
\* any of its directories.
TreesAll == UNION {{Tree(d, M) : M \in SUBSET (0..d)} : d \in 0..MaxDepth}

\* checkCompatibility(packageName, projectPath) is called on its own, in any
\* directory of any tree.
InitFind ==
    /\ InitEnv(PackageNamesNarrow, TreesAll, ManifestsNarrow, {EmptyCache})
    /\ InitLocals
    /\ compatibility = None
    /\ packageInfo = None
    /\ security = None
    /\ vpc = "idle"
    /\ cpc = "find"
    /\ ipc = "idle"
    /\ spc = "idle"

SpecFind == InitFind /\ [][NextCompat]_vars

\* calculateRiskScore(compatibility, security, packageInfo) is called on its own.
InitScore ==
    /\ InitEnv(PackageNamesNarrow, {Tree(0, {})}, {}, {EmptyCache})
    /\ InitLocals
    /\ compatibility \in {Some(r) : r \in ScoreReports}
    /\ security \in {Some(r) : r \in ScoreSecurityReports}
    /\ packageInfo \in ScoreInfos
    /\ vpc = "scoring"
    /\ cpc = "idle"
    /\ ipc = "idle"
    /\ spc = "idle"

NextScore == CalculateRiskScore

SpecScore == InitScore /\ [][NextScore]_vars

\* calculateRiskScore is called with a compatibility report of up to MaxPeers checks.
InitCompatFactor ==
    /\ InitEnv(PackageNamesNarrow, {Tree(0, {})}, {}, {EmptyCache})
    /\ InitLocals
    /\ compatibility \in {Some(r) : r \in CountedReports}
    /\ security = Some(EmptySecurityReport(packageName))
    /\ packageInfo \in {None, Some(CachedInfo)}
    /\ vpc = "scoring"
    /\ cpc = "idle"
    /\ ipc = "idle"
    /\ spc = "idle"

SpecCompatFactor == InitCompatFactor /\ [][NextScore]_vars

\* calculateRiskScore is called with a security report of up to MaxPerSeverity
\* vulnerabilities of each severity.
InitSecurityFactor ==
    /\ InitEnv(PackageNamesNarrow, {Tree(0, {})}, {}, {EmptyCache})
    /\ InitLocals
    /\ compatibility = Some(EmptyReport(packageName))
    /\ security \in {Some(r) : r \in CountedSecurityReports}
    /\ packageInfo \in {None, Some(CachedInfo)}
    /\ vpc = "scoring"
    /\ cpc = "idle"
    /\ ipc = "idle"
    /\ spc = "idle"

SpecSecurityFactor == InitSecurityFactor /\ [][NextScore]_vars

\* calculateRiskScore is called with reports of up to MaxChecks checks and
\* MaxVulns vulnerabilities and an info from DatedInfos.
InitDated ==
    /\ InitEnv(PackageNamesNarrow, {Tree(0, {})}, {}, {EmptyCache})
    /\ InitLocals
    /\ compatibility \in {Some(r) : r \in ScoreReports}
    /\ security \in {Some(r) : r \in ScoreSecurityReports}
    /\ packageInfo \in DatedInfos
    /\ vpc = "scoring"
    /\ cpc = "idle"
    /\ ipc = "idle"
    /\ spc = "idle"

SpecDated == InitDated /\ [][NextScore]_vars

(***************************************************************************)
(* Properties.                                                             *)
(***************************************************************************)
Returned == cpc = "done"
Finished == cpc \in {"done", "raised"}

\* The three directories findPackageJson looks into hold no package.json.
NoManifestInSearched ==
    \A level \in fs.manifestAt : level > 2 \/ level > fs.depth

\* The action of every total in 0..100, 75 and 40 among them.
ThresholdsOnEveryTotal ==
    /\ \A total \in 0..100 :
        ActionFor(total) = IF total > 75 THEN "ALLOW"
                           ELSE IF total > 40 THEN "WARN"
                           ELSE "BLOCK"
    /\ ActionFor(75) = "WARN"
    /\ ActionFor(40) = "BLOCK"

C2_FourBoundedFactors ==
    riskScore # None =>
        LET f == riskScore[1].factors
        IN  /\ Len(f) = 4
            /\ <<f[1].name, f[2].name, f[3].name, f[4].name>> =
                   <<"Peer Compatibility", "Security", "Deprecation", "Maintenance">>
            /\ <<f[1].maxScore, f[2].maxScore, f[3].maxScore, f[4].maxScore>> =
                   <<40, 30, 15, 15>>
            /\ \A i \in 1..4 : 0 <= f[i].score /\ f[i].score <= f[i].maxScore
            /\ f[1].maxScore + f[2].maxScore + f[3].maxScore + f[4].maxScore = 100
            /\ riskScore[1].score = f[1].score + f[2].score + f[3].score + f[4].score
            /\ riskScore[1].score \in 0..100

\* Scored: a package whose maintenance penalties (10 + 5 + 3) exceed the
\* factor's 15 points.
C2_Witness ==
    /\ riskScore # None
    /\ packageInfo # None
    /\ packageInfo[1].lastPublish = Some(731 * 24)
    /\ packageInfo[1].maintainerCount = 0
    /\ packageInfo[1].weeklyDownloads = 99
    /\ riskScore[1].factors[4].score = 0

\* The status the four rules give the i-th declared peer.
RuleStatus(entry, meta, inst) ==
    LET absent == entry[1] \notin DOMAIN inst
        optional == entry[1] \in DOMAIN meta /\ meta[entry[1]]
    IN  CASE absent /\ optional -> "OPTIONAL_MISSING"
          [] absent /\ ~optional -> "MISSING"
          [] ~absent /\ RangeVersions(inst[entry[1]]) \cap RangeVersions(entry[2]) # {}
               -> "COMPATIBLE"
          [] OTHER -> "INCOMPATIBLE"

\* C3: in a report checkCompatibility returns for declared peers, checks has
\* one entry per peer requirement in declaration order, and its status is
\* OPTIONAL_MISSING for an absent optional peer, MISSING for an absent
\* mandatory one, COMPATIBLE for an installed peer whose range overlaps the
\* required one and INCOMPATIBLE for an installed peer whose range does not.
C3_ClassifiedByRule ==
    (Returned /\ pkgJsonPath # None /\ peerData # None) =>
        LET peers == peerData[1].peers
            checks == compatibility[1].checks
        IN  /\ Len(checks) = Len(peers)
            /\ \A i \in 1..Len(peers) :
                /\ checks[i].name = peers[i][1]
                /\ checks[i].required = peers[i][2]
                /\ checks[i].status = RuleStatus(peers[i], peerData[1].meta, installed[1])

\* A report of two checks: an installed peer flagged optional whose range
\* does not overlap, then an absent optional peer.
C3_Witness ==
    /\ Returned
    /\ peerData # None
    /\ Len(compatibility[1].checks) = 2
    /\ compatibility[1].checks[1].status = "INCOMPATIBLE"
    /\ IsOptional(peerData[1].meta, compatibility[1].checks[1].name)
    /\ compatibility[1].checks[2].status = "OPTIONAL_MISSING"

\* C4: in every report checkCompatibility returns, compatible is true exactly
\* when no check is MISSING or INCOMPATIBLE.
C4_CompatibleIffNoFailingCheck ==
    Returned =>
        LET r == compatibility[1]
        IN  r.compatible <=>
                ~\E i \in 1..Len(r.checks) : r.checks[i].status \in {"MISSING", "INCOMPATIBLE"}

\* A compatible report whose only check is an absent optional peer.
C4_Witness ==
    /\ Returned
    /\ Len(compatibility[1].checks) = 1
    /\ compatibility[1].checks[1].status = "OPTIONAL_MISSING"
    /\ compatibility[1].compatible

\* C5: in every report checkCompatibility returns, a check carries a
\* fixCommand exactly when its status is MISSING or INCOMPATIBLE; an absent
\* optional peer carries none, and a report whose checks are all
\* OPTIONAL_MISSING or COMPATIBLE is compatible.
C5_FixCommandIffFailing ==
    Returned =>
        LET r == compatibility[1]
        IN  /\ \A i \in 1..Len(r.checks) :
                (r.checks[i].fixCommand # None) <=>
                    (r.checks[i].status \in {"MISSING", "INCOMPATIBLE"})
            /\ (\A i \in 1..Len(r.checks) :
                    r.checks[i].status \in {"OPTIONAL_MISSING", "COMPATIBLE"})
               => r.compatible

\* A report with a MISSING check that carries a command and an
\* OPTIONAL_MISSING check that carries none.
C5_Witness ==
    /\ Returned
    /\ Len(compatibility[1].checks) = 2
    /\ compatibility[1].checks[1].status = "MISSING"
    /\ compatibility[1].checks[1].fixCommand # None
    /\ compatibility[1].checks[2].status = "OPTIONAL_MISSING"
    /\ compatibility[1].checks[2].fixCommand = None

\* C6: when no manifest is found in the searched directories, checkCompatibility
\* returns {packageName, checks: [], compatible: true} and no request is ever
\* sent; when the target declares zero peer requirements it returns the same
\* report whatever the installed map holds.
C6_EmptyReportWithoutManifestOrPeers ==
    /\ NoManifestInSearched => requests = <<>>
    /\ (Finished /\ NoManifestInSearched) =>
        /\ Returned
        /\ compatibility =
               Some([packageName |-> packageName, checks |-> <<>>, compatible |-> TRUE])
    /\ (Finished /\ installed # None /\ peerData # None /\ Len(peerData[1].peers) = 0) =>
        /\ Returned
        /\ compatibility =
               Some([packageName |-> packageName, checks |-> <<>>, compatible |-> TRUE])

\* Returned for a target without peers, with packages installed.
C6_Witness ==
    /\ Returned
    /\ installed # None
    /\ DOMAIN installed[1] # {}
    /\ peerData # None
    /\ Len(peerData[1].peers) = 0
    /\ requests # <<>>

\* Returned without a manifest, though one exists above the directories searched.
C6_WitnessNoManifest ==
    /\ Returned
    /\ NoManifestInSearched
    /\ fs.manifestAt # {}

\* C8: when the manifest was found but cannot be read or parsed,
\* checkCompatibility does not raise and returns a report.
C8_UnreadableManifestDoesNotRaise ==
    (Finished /\ pkgJsonPath # None /\ manifest[1].status # "ok") =>
        /\ Returned
        /\ compatibility # None

\* C9: when an installed or a required range cannot be parsed,
\* checkCompatibility does not raise: that peer is INCOMPATIBLE and the report
\* holds a check for every declared peer.
C9_UnparseableRangeIsIncompatible ==
    (Finished /\ installed # None /\ peerData # None) =>
        /\ Returned
        /\ Len(compatibility[1].checks) = Len(peerData[1].peers)
        /\ \A i \in 1..Len(peerData[1].peers) :
            LET peerName == peerData[1].peers[i][1]
                requiredRange == peerData[1].peers[i][2]
            IN  (/\ peerName \in DOMAIN installed[1]
                 /\ \/ installed[1][peerName] \notin ValidRanges
                    \/ requiredRange \notin ValidRanges)
                => compatibility[1].checks[i].status = "INCOMPATIBLE"

\* A name is declared in dependencies and in devDependencies with different ranges.
Collision(n) ==
    /\ manifest # None
    /\ manifest[1].status = "ok"
    /\ n \in DOMAIN manifest[1].dependencies \cap DOMAIN manifest[1].devDependencies
    /\ manifest[1].dependencies[n] # manifest[1].devDependencies[n]

\* C10 as stated: on a collision the installed map keeps the range from
\* dependencies.
C10_DependenciesWin ==
    installed # None =>
        \A n \in PeerNames : Collision(n) => installed[1][n] = manifest[1].dependencies[n]

\* C10, amended: on a collision the installed map holds the range from
\* devDependencies (the later Object.assign overwrites); a name declared in
\* one of the two only keeps that range.
C10_DevDependenciesWin ==
    installed # None =>
        /\ DOMAIN installed[1] =
               DOMAIN manifest[1].dependencies \cup DOMAIN manifest[1].devDependencies
        /\ \A n \in DOMAIN installed[1] :
            IF n \in DOMAIN manifest[1].devDependencies
            THEN installed[1][n] = manifest[1].devDependencies[n]
            ELSE installed[1][n] = manifest[1].dependencies[n]

\* The installed map was built from a manifest with a collision on react.
C10_Witness ==
    /\ installed # None
    /\ Collision("react")

\* C7: whichever provider requests fail, validatePackage returns a
\* ValidationResult and never raises, with checks = [] and compatible = true
\* when the peer request failed, packageInfo = null when the metadata request
\* failed, and no vulnerabilities when the OSV query failed.
C7_ProviderFailuresNeverRaise ==
    (failed # {} /\ vpc \in {"done", "raised"}) =>
        /\ vpc = "done"
        /\ result # None
        /\ "peers" \in failed =>
            /\ result[1].compatibility.checks = <<>>
            /\ result[1].compatibility.compatible
        /\ "info" \in failed => result[1].packageInfo = None
        /\ "osv" \in failed =>
            /\ result[1].security.vulnerabilities = <<>>
            /\ ~result[1].security.hasCritical

\* The pieces `name@"range"` of the failing checks from the i-th on, in
\* order, separated by single spaces.
RECURSIVE FailingPeersFrom(_, _)
FailingPeersFrom(checks, i) ==
    IF i > Len(checks) THEN <<>>
    ELSE LET rest == FailingPeersFrom(checks, i + 1)
         IN  IF checks[i].status \in {"MISSING", "INCOMPATIBLE"}
             THEN <<checks[i].name, "@", "\"", checks[i].required, "\"">>
                  \o (IF rest = <<>> THEN <<>> ELSE <<" ">> \o rest)
             ELSE rest

\* C11: in every report checkCompatibility returns with a MISSING or
\* INCOMPATIBLE check, the first such check carries the combined command:
\* "npm install " followed by every failing peer with its required range,
\* space-joined in declaration order; every other failing check carries the
\* command for its own peer alone, and no other check carries a command.
C11_CombinedFixOnFirstFailing ==
    Returned =>
        LET checks == compatibility[1].checks
            failing == {i \in 1..Len(checks) :
                           checks[i].status \in {"MISSING", "INCOMPATIBLE"}}
        IN  \A i \in 1..Len(checks) :
                IF i \notin failing THEN checks[i].fixCommand = None
                ELSE IF \A j \in failing : i <= j
                THEN checks[i].fixCommand =
                         Some(<<"npm install ">> \o FailingPeersFrom(checks, 1))
                ELSE checks[i].fixCommand =
                         Some(<<"npm install ", checks[i].name, "@", "\"",
                                checks[i].required, "\"">>)

\* A report of two failing checks: the first carries the command naming both
\* peers, the second the command for its own peer.
C11_Witness ==
    /\ Returned
    /\ Len(compatibility[1].checks) = 2
    /\ compatibility[1].checks[1].status = "MISSING"
    /\ compatibility[1].checks[2].status = "INCOMPATIBLE"
    /\ compatibility[1].checks[1].fixCommand =
           Some(<<"npm install ", "react-dom", "@", "\"", "^18.0.0", "\"", " ",
                  "react", "@", "\"", "^18.0.0", "\"">>)
    /\ compatibility[1].checks[2].fixCommand =
           Some(<<"npm install ", "react", "@", "\"", "^18.0.0", "\"">>)

\* The command holds the pieces of text one after the other.
ContainsText(command, text) ==
    \E i \in 1..(Len(command) - Len(text) + 1) :
        SubSeq(command, i, i + Len(text) - 1) = text

\* Scenario A: react ^17.0.2 installed, the target's one peer is a mandatory
\* react ^18.0.0, and checkCompatibility has returned.
ScenarioA ==
    /\ Returned
    /\ installed = Some([n \in {"react"} |-> "^17.0.2"])
    /\ peerData # None
    /\ peerData[1].peers = <<<<"react", "^18.0.0">>>>
    /\ ~IsOptional(peerData[1].meta, "react")

\* C12 as stated: in scenario A the report has one INCOMPATIBLE check, is not
\* compatible, and its command contains the text react@^18.0.0.
C12_CommandContainsBareRange ==
    ScenarioA =>
        LET r == compatibility[1]
        IN  /\ Len(r.checks) = 1
            /\ r.checks[1].status = "INCOMPATIBLE"
            /\ ~r.compatible
            /\ r.checks[1].fixCommand # None
            /\ ContainsText(r.checks[1].fixCommand[1], <<"react", "@", "^18.0.0">>)

\* C12, amended: in scenario A the report has one INCOMPATIBLE check, is not
\* compatible, and its command is npm install react@"^18.0.0": the required
\* range stands between double quotes.
C12_CommandQuotesRange ==
    ScenarioA =>
        LET r == compatibility[1]
        IN  /\ Len(r.checks) = 1
            /\ r.checks[1].status = "INCOMPATIBLE"
            /\ ~r.compatible
            /\ r.checks[1].fixCommand =
                   Some(<<"npm install ", "react", "@", "\"", "^18.0.0", "\"">>)
            /\ ContainsText(r.checks[1].fixCommand[1],
                            <<"react", "@", "\"", "^18.0.0", "\"">>)

\* Scenario A was run to its report.
C12_Witness ==
    /\ ScenarioA
    /\ compatibility[1].checks[1].installed = Some("^17.0.2")
    /\ compatibility[1].checks[1].status = "INCOMPATIBLE"

Scored == riskScore # None

SeqRange(seq) == {seq[i] : i \in 1..Len(seq)}

\* How many of the scored report's checks have the given status.
ChecksWith(status) ==
    Cardinality({i \in 1..Len(compatibility[1].checks) :
                    compatibility[1].checks[i].status = status})

\* C13: the compatibility factor is 40 for a report without checks; otherwise,
\* with t checks of which f are MISSING or INCOMPATIBLE, it is the integer
\* nearest to 40 * (1 - f/t), a half rounding up, and never below 0.
C13_CompatibilityFactor ==
    Scored =>
        LET t == Len(compatibility[1].checks)
            f == ChecksWith("MISSING") + ChecksWith("INCOMPATIBLE")
            score == riskScore[1].factors[1].score
        IN  /\ t = ChecksWith("MISSING") + ChecksWith("INCOMPATIBLE")
                   + ChecksWith("OPTIONAL_MISSING") + ChecksWith("COMPATIBLE")
            /\ score >= 0
            /\ t = 0 => score = 40
            \* score - 1/2 <= 40 * (t - f) / t < score + 1/2
            /\ t > 0 => /\ (2 * score - 1) * t <= 80 * (t - f)
                        /\ 80 * (t - f) < (2 * score + 1) * t

\* Scored: 16 checks, one of them failing, so that 40 * 15/16 = 37.5 and the
\* factor is 38; an OPTIONAL_MISSING check is among the 16.
C13_Witness ==
    /\ Scored
    /\ Len(compatibility[1].checks) = 16
    /\ ChecksWith("MISSING") + ChecksWith("INCOMPATIBLE") = 1
    /\ ChecksWith("OPTIONAL_MISSING") > 0
    /\ riskScore[1].factors[1].score = 38

\* How many of the scored report's vulnerabilities have the given severity.
VulnsWith(severity) ==
    Cardinality({i \in 1..Len(security[1].vulnerabilities) :
                    security[1].vulnerabilities[i].severity = severity})

\* The scored security report with n LOW vulnerabilities more.
WithMoreLow(n) ==
    [security[1] EXCEPT !.vulnerabilities =
        @ \o [i \in 1..n |-> [id |-> "GHSA", severity |-> "LOW"]]]

\* The scored security report without its LOW vulnerabilities.
WithoutLow ==
    [security[1] EXCEPT !.vulnerabilities = SelectSeq(@, LAMBDA v : v.severity # "LOW")]

\* C14: the security factor is 30 for a report without vulnerabilities;
\* otherwise it is 30 * (1 - min(1, (15 critical + 8 high + 3 moderate) / 30)),
\* rounded; a report of LOW vulnerabilities only scores 30, and adding LOW
\* vulnerabilities to a report, or removing them, leaves its score unchanged.
C14_SecurityFactorIgnoresLow ==
    Scored =>
        LET weighted == 15 * VulnsWith("CRITICAL") + 8 * VulnsWith("HIGH")
                        + 3 * VulnsWith("MODERATE")
            capped == IF weighted > 30 THEN 30 ELSE weighted
            score == riskScore[1].factors[2].score
        IN  /\ Len(security[1].vulnerabilities) = 0 => score = 30
            \* score - 1/2 <= 30 * (1 - capped / 30) < score + 1/2
            /\ 2 * score - 1 <= 2 * (30 - capped)
            /\ 2 * (30 - capped) < 2 * score + 1
            /\ VulnsWith("LOW") = Len(security[1].vulnerabilities) => score = 30
            /\ \A n \in 1..2 : scoreSecurity(WithMoreLow(n)).score = score
            /\ scoreSecurity(WithoutLow).score = score

\* Scored: a report with LOW vulnerabilities and others whose weights pass 30.
C14_Witness ==
    /\ Scored
    /\ VulnsWith("LOW") = 2
    /\ VulnsWith("CRITICAL") = 2
    /\ VulnsWith("HIGH") = 1
    /\ riskScore[1].factors[2].score = 0

\* Scored: LOW vulnerabilities only, and the full 30 points.
C14_WitnessLowOnly ==
    /\ Scored
    /\ VulnsWith("LOW") = 2
    /\ Len(security[1].vulnerabilities) = 2
    /\ riskScore[1].factors[2].score = 30

\* C15: the deprecation factor is 15 when the package info is null, 0 when
\* its deprecated field is a message and 15 when it is false; it takes no
\* other value.
C15_DeprecationAllOrNothing ==
    Scored =>
        LET score == riskScore[1].factors[3].score
        IN  /\ score \in {0, 15}
            /\ packageInfo = None => score = 15
            /\ (packageInfo # None /\ packageInfo[1].deprecated # None) => score = 0
            /\ (packageInfo # None /\ packageInfo[1].deprecated = None) => score = 15

\* Scored: a deprecated package.
C15_Witness ==
    /\ Scored
    /\ packageInfo # None
    /\ packageInfo[1].deprecated = Some("use X instead")
    /\ riskScore[1].factors[3].score = 0

\* The whole days between the last publish of the scored package and now.
WholeDaysSincePublish == packageInfo[1].lastPublish[1] \div 24

\* C16: the maintenance factor is 15 when the package info is null; otherwise
\* it is max(0, 15 - staleness - maintainers - downloads), where staleness is
\* 10 for a last publish more than 730 whole days ago, else 5 for more than
\* 365, else 0 (0 also for a date that cannot be read); maintainers is 5 for
\* no maintainer, 2 for one, else 0; downloads is 3 below 100 weekly
\* downloads, else 0.
C16_MaintenanceFactor ==
    Scored =>
        LET score == riskScore[1].factors[4].score
        IN  /\ packageInfo = None => score = 15
            /\ packageInfo # None =>
                LET i == packageInfo[1]
                    staleness == IF i.lastPublish = None THEN 0
                                 ELSE IF WholeDaysSincePublish > 730 THEN 10
                                 ELSE IF WholeDaysSincePublish > 365 THEN 5
                                 ELSE 0
                    maintainers == CASE i.maintainerCount = 0 -> 5
                                     [] i.maintainerCount = 1 -> 2
                                     [] OTHER -> 0
                    downloads == IF i.weeklyDownloads < 100 THEN 3 ELSE 0
                    raw == 15 - staleness - maintainers - downloads
                IN  score = IF raw < 0 THEN 0 ELSE raw

\* Scored: the three penalties together, 10 + 5 + 3 = 18, and a factor of 0.
C16_Witness ==
    /\ Scored
    /\ packageInfo # None
    /\ packageInfo[1].lastPublish # None
    /\ WholeDaysSincePublish = 731
    /\ packageInfo[1].maintainerCount = 0
    /\ packageInfo[1].weeklyDownloads = 99
    /\ riskScore[1].factors[4].score = 0

\* Scored: published 730 days and 23 hours ago, which costs 5 points, not 10.
C16_WitnessBoundary ==
    /\ Scored
    /\ packageInfo # None
    /\ packageInfo[1].lastPublish = Some(730 * 24 + 23)
    /\ packageInfo[1].maintainerCount = 2
    /\ packageInfo[1].weeklyDownloads = 100
    /\ riskScore[1].factors[4].score = 10

SeverityRank(severity) ==
    CASE severity = "LOW" -> 1
      [] severity = "MODERATE" -> 2
      [] severity = "HIGH" -> 3
      [] severity = "CRITICAL" -> 4

\* The scored security report with one vulnerability more, or with one of
\* its vulnerabilities at a higher severity.
WorseSecurityReports ==
    LET vulns == security[1].vulnerabilities
    IN  {SecurityReportOfSeverities(packageName,
             [i \in 1..(Len(vulns) + 1) |->
                 IF i <= Len(vulns) THEN vulns[i].severity ELSE sev]) :
            sev \in Severities}
        \cup
        {SecurityReportOfSeverities(packageName,
             [i \in 1..Len(vulns) |-> IF i = k[1] THEN k[2] ELSE vulns[i].severity]) :
            k \in {q \in (1..Len(vulns)) \X Severities :
                      SeverityRank(q[2]) > SeverityRank(vulns[q[1]].severity)}}

FailingIn(report) ==
    Cardinality({i \in 1..Len(report.checks) :
                    report.checks[i].status \in {"MISSING", "INCOMPATIBLE"}})

\* The reports whose ratio of failing checks is above that of the scored report.
WorseCompatibilityReports ==
    LET cur == compatibility[1]
    IN  {r \in ScoreReports :
            /\ Len(r.checks) > 0
            /\ IF Len(cur.checks) = 0 THEN FailingIn(r) > 0
               ELSE FailingIn(r) * Len(cur.checks) > FailingIn(cur) * Len(r.checks)}

\* The scored info, deprecated where it was not, or published longer ago.
WorseInfos ==
    IF packageInfo = None THEN {}
    ELSE (IF packageInfo[1].deprecated = None
          THEN {Some([packageInfo[1] EXCEPT !.deprecated = Some("use X instead")])}
          ELSE {})
         \cup
         (IF packageInfo[1].lastPublish = None THEN {}
          ELSE {Some([packageInfo[1] EXCEPT !.lastPublish = Some(@[1] + more)]) :
                   more \in {1, 24, 366 * 24}})

\* C17: with the other two inputs as they were scored, the total does not
\* rise when a vulnerability is added or one is raised in severity, when the
\* ratio of failing checks rises, when the package becomes deprecated, or
\* when the last publish lies further back.
C17_TotalNeverRisesWithRisk ==
    Scored =>
        LET total == riskScore[1].score
        IN  /\ \A s \in WorseSecurityReports :
                calculateRiskScore(compatibility[1], s, packageInfo).score <= total
            /\ \A c \in WorseCompatibilityReports :
                calculateRiskScore(c, security[1], packageInfo).score <= total
            /\ \A i \in WorseInfos :
                calculateRiskScore(compatibility[1], security[1], i).score <= total

\* Scored: an input that every kind of change can worsen, and does: one
\* failing check of two, one MODERATE vulnerability, not deprecated,
\* published 365 days ago.
C17_Witness ==
    /\ Scored
    /\ Len(compatibility[1].checks) = 2
    /\ FailingIn(compatibility[1]) = 1
    /\ Len(security[1].vulnerabilities) = 1
    /\ security[1].vulnerabilities[1].severity = "MODERATE"
    /\ packageInfo # None
    /\ packageInfo[1].deprecated = None
    /\ packageInfo[1].lastPublish = Some(365 * 24)
    /\ \E s \in WorseSecurityReports :
           calculateRiskScore(compatibility[1], s, packageInfo).score < riskScore[1].score
    /\ \E c \in WorseCompatibilityReports :
           calculateRiskScore(c, security[1], packageInfo).score < riskScore[1].score
    /\ \E i \in WorseInfos :
           /\ i[1].deprecated = None
           /\ calculateRiskScore(compatibility[1], security[1], i).score < riskScore[1].score

\* C18: when the scored package info carries a deprecation message, the
\* deprecation factor is 0 and the action is WARN or BLOCK, whatever the
\* compatibility report, the security report and the maintenance data.
C18_DeprecatedNeverAllowed ==
    (Scored /\ packageInfo # None /\ packageInfo[1].deprecated # None) =>
        /\ riskScore[1].factors[3].score = 0
        /\ riskScore[1].action \in {"WARN", "BLOCK"}

\* Scored: deprecated with a message, and nothing else against the package.
DeprecatedButAllowed ==
    /\ Scored
    /\ packageInfo # None
    /\ packageInfo[1].deprecated = Some("use X instead")
    /\ Len(compatibility[1].checks) = 0
    /\ Len(security[1].vulnerabilities) = 0
    /\ riskScore[1].factors[3].score = 0
    /\ riskScore[1].score = 85
    /\ riskScore[1].action = "ALLOW"

\* C19: once validatePackage has called checkSecurity, the version it passed
\* is the version of the package info getPackageInfo returned, or "latest"
\* when getPackageInfo returned null; the report that comes back is for the
\* package being validated.
C19_SecurityVersionFromMetadata ==
    spc # "idle" =>
        /\ ipc = "done"
        /\ packageInfo # None => secVersion = packageInfo[1].version
        /\ packageInfo = None => secVersion = "latest"
        /\ security # None => security[1].packageName = packageName

\* checkSecurity has returned after a call with the version of the metadata.
C19_Witness ==
    /\ spc = "done"
    /\ packageInfo # None
    /\ "info" \in SeqRange(requests)
    /\ secVersion = "1.0.0"
    /\ security # None

\* checkSecurity has returned after a call with "latest": the metadata
\* request failed.
C19_WitnessLatest ==
    /\ spc = "done"
    /\ packageInfo = None
    /\ "info" \in failed
    /\ secVersion = "latest"

\* C20: in validatePackage the compatibility check and the metadata fetch are
\* started together, before the await on either; the security check is not
\* started before both have returned; and the risk score exists only once
\* the compatibility report, the metadata result and the security report do.
C20_OrderOfTheChecks ==
    /\ (cpc = "idle") <=> (ipc = "idle")
    /\ vpc = "start" => (cpc = "idle" /\ spc = "idle")
    /\ vpc = "await" => (cpc # "idle" /\ ipc # "idle" /\ spc = "idle")
    /\ spc # "idle" => (ipc = "done" /\ cpc = "done" /\ compatibility # None)
    /\ riskScore # None =>
        /\ cpc = "done" /\ compatibility # None
        /\ ipc = "done"
        /\ spc = "done" /\ security # None
        /\ result # None

\* The compatibility check has returned while the metadata fetch is still
\* waiting for the registry, and the security check has not been started.
C20_Witness ==
    /\ vpc = "await"
    /\ cpc = "done"
    /\ ipc \in {"cacheGet", "registry", "downloads", "cacheSet"}
    /\ spc = "idle"

\* The other order: the metadata fetch has returned and the compatibility
\* check has not.
C20_WitnessInfoFirst ==
    /\ vpc = "await"
    /\ ipc = "done"
    /\ cpc \in {"find", "read", "peersCacheGet", "peersFetch", "peersCacheSet", "classify"}
    /\ spc = "idle"

\* C21: the ValidationResult validatePackage returns holds the requested
\* package name, the compatibility report, the package info, the security
\* report and the risk score as the checkers produced them, and its action is
\* that of the risk score.
C21_ResultCombinesTheReports ==
    result # None =>
        /\ vpc = "done"
        /\ result[1].packageName = packageName
        /\ result[1].compatibility = compatibility[1]
        /\ result[1].packageInfo = packageInfo
        /\ result[1].security = security[1]
        /\ result[1].riskScore = riskScore[1]
        /\ result[1].riskScore =
               calculateRiskScore(compatibility[1], security[1], packageInfo)
        /\ result[1].action = result[1].riskScore.action
        /\ DOMAIN result[1] = {"packageName", "compatibility", "packageInfo",
                               "security", "riskScore", "action"}

\* Returned: a result whose action is not ALLOW, with a check, a
\* vulnerability and a package info in it.
C21_Witness ==
    /\ result # None
    /\ result[1].action = "BLOCK"
    /\ Len(result[1].compatibility.checks) > 0
    /\ Len(result[1].security.vulnerabilities) > 0
    /\ result[1].packageInfo # None

Exited == cliPc = "exited"

\* C22: when the validation of `check <package>` has completed, the process
\* exits with a non-zero code exactly when the action is BLOCK and --dry-run
\* is not set; otherwise it ends with code 0.
C22_CheckExitCode ==
    (Exited /\ result # None) =>
        /\ exitCode \in {Some(0), Some(1)}
        /\ exitCode = Some(1) <=> (result[1].action = "BLOCK" /\ ~dryRun)
        /\ result[1].action \in {"WARN", "ALLOW"} => exitCode = Some(0)
        /\ dryRun => exitCode = Some(0)
        /\ Len(reported) = 1
        /\ reported[1].action = result[1].action

\* A BLOCK under --dry-run ended with code 0.
C22_Witness ==
    /\ Exited
    /\ result # None
    /\ result[1].action = "BLOCK"
    /\ dryRun
    /\ exitCode = Some(0)

\* A BLOCK without --dry-run ended with code 1.
C22_WitnessBlock ==
    /\ Exited
    /\ result # None
    /\ result[1].action = "BLOCK"
    /\ ~dryRun
    /\ exitCode = Some(1)

\* A provider result of this validation came from the cache: it is there
\* and no request was answered for it.
ServedFromCache ==
    \/ peerData # None /\ received.peers = None
    \/ packageInfo # None /\ received.info = None
    \/ security # None /\ received.osv = None

\* C24: under --no-cache no peer requirements, package info or security
\* report is served from the cache.
C24_NoCacheBypassesTheCache ==
    noCache => ~ServedFromCache

\* Run with --no-cache, and the three results came from the cache.
NoCacheServedFromCache ==
    /\ noCache
    /\ Exited
    /\ peerData # None /\ received.peers = None
    /\ packageInfo # None /\ received.info = None
    /\ security # None /\ received.osv = None
    /\ requests = <<>>

\* The registry answered not-found to every lookup and OSV knows no
\* advisory; nothing came from the cache.
PackageDoesNotExist ==
    /\ cache0 = EmptyCache
    /\ received.info # None /\ received.info[1].kind = "notOk"
    /\ received.peers # None => received.peers[1].kind = "notOk"
    /\ received.osv = Some([kind |-> "ok", vulns |-> None])

\* C25: the check of a package that does not exist ends with BLOCK, and with
\* a non-zero exit code unless --dry-run is set.
C25_MissingPackageIsBlocked ==
    (Exited /\ result # None /\ PackageDoesNotExist) =>
        /\ result[1].action = "BLOCK"
        /\ ~dryRun => exitCode = Some(1)

\* The check of a package that does not exist ended with 100 points, ALLOW
\* and exit code 0.
MissingPackageAllowed ==
    /\ Exited
    /\ result # None
    /\ PackageDoesNotExist
    /\ received.peers # None
    /\ ~dryRun
    /\ result[1].riskScore.score = 100
    /\ result[1].action = "ALLOW"
    /\ exitCode = Some(0)

\* C30: for a package info that is not null, the Deprecation factor is 0
\* exactly when the report prints the DEPRECATED line and 15 exactly when it
\* prints that the package is not deprecated.
C30_ScorerAndReportAgree ==
    (Exited /\ result # None /\ result[1].packageInfo # None) =>
        LET factor == result[1].riskScore.factors[3].score
            line == reported[1].deprecation
        IN  /\ factor = 0 <=> line = "DEPRECATED"
            /\ factor = 15 <=> line = "Not deprecated."

\* The registry's deprecated field was "": 0 points, and the report says the
\* package is not deprecated.
EmptyDeprecationDisagrees ==
    /\ Exited
    /\ result # None
    /\ result[1].packageInfo # None
    /\ result[1].packageInfo[1].deprecated = Some("")
    /\ result[1].riskScore.factors[3].score = 0
    /\ reported[1].deprecation = "Not deprecated."

\* The loop of check-file has called validatePackage at least once.
ScanBegun == cliPc # "checkFile" /\ vpc # "idle"

\* C23: check-file exits only after every name of the file has been
\* validated and reported, one validation at a time, and then with a
\* non-zero code exactly when some action was BLOCK and --dry-run is not set.
C23_CheckFileValidatesAll ==
    /\ (ScanBegun /\ cliPc = "loop") => vpc = "done"
    /\ (Exited /\ ScanBegun) =>
        /\ pending = <<>>
        /\ vpc = "done"
        /\ hasBlock <=> \E i \in 1..Len(reported) : reported[i].action = "BLOCK"
        /\ exitCode = Some(1) <=> (hasBlock /\ ~dryRun)

\* The same, for the scans in which no validation raised.
CheckFileWhenNothingRaises ==
    /\ (ScanBegun /\ cliPc = "loop") => vpc = "done"
    /\ (Exited /\ ScanBegun /\ vpc # "raised") =>
        /\ pending = <<>>
        /\ hasBlock <=> \E i \in 1..Len(reported) : reported[i].action = "BLOCK"
        /\ exitCode = Some(1) <=> (hasBlock /\ ~dryRun)

\* The scan ended with code 1 in the second validation, which raised: one
\* package was reported, none was BLOCK, and the second was never reported.
ScanCutShort ==
    /\ Exited
    /\ vpc = "raised"
    /\ Len(reported) = 1
    /\ ~hasBlock
    /\ Len(pending) = 1
    /\ exitCode = Some(1)

\* A scan of two packages went through after a BLOCK on the first.
ScanGoesOnAfterBlock ==
    /\ Exited
    /\ Len(reported) = 2
    /\ reported[1].action = "BLOCK"
    /\ reported[2].action # "BLOCK"
    /\ exitCode = Some(1)

\* The nearest of the start directory (level 0) and its 2 nearest ancestors
\* that holds a package.json, if any.
NearestOfThree(f) ==
    LET within == {l \in f.manifestAt : l <= 2}
    IN  IF within = {} THEN None
        ELSE Some(CHOOSE l \in within : \A k \in within : l <= k)

C26_WitnessRoot ==
    /\ cpc = "done"
    /\ fs.depth = 1
    /\ pkgJsonPath = None
    /\ Accessed(fs) = <<0, 1>>

\* Of two ancestors with a package.json the nearer one was returned.
C26_WitnessNearest ==
    /\ cpc # "find"
    /\ fs.manifestAt = {1, 2}
    /\ pkgJsonPath = Some(1)

\* checkCompatibility run alone on the cache c, the registry answering with
\* peersResponse if it is asked: what it returns and the cache it leaves.
CompatibilityAlone(c, peersResponse) ==
    IF findPackageJson(fs) = None
    THEN [out |-> Some(EmptyReport(packageName)), cache |-> c]
    ELSE IF manifest[1].status # "ok"
    THEN [out |-> "raised", cache |-> c]
    ELSE LET key == PeersKey(packageName)
             cached == CacheGet(c, key, now)
             c1 == CacheAfterGet(c, key, now)
             deps == getInstalledPackages(manifest[1])
             Classified(pd, c2) ==
                 IF pd = None \/ Len(pd[1].peers) = 0
                 THEN [out |-> Some(EmptyReport(packageName)), cache |-> c2]
                 ELSE IF LoopThrows(pd[1].peers, deps)
                 THEN [out |-> "raised", cache |-> c2]
                 ELSE [out |-> Some(CompatibilityReportOf(packageName, pd[1], deps)),
                       cache |-> c2]
         IN  IF cached # None THEN Classified(cached, c1)
             ELSE IF peersResponse = None THEN [out |-> "not asked", cache |-> c1]
             ELSE IF IsFailure(peersResponse[1]) THEN Classified(None, c1)
             ELSE LET pd == PeersResultOf(peersResponse[1].data)
                  IN  IF pd = None THEN Classified(None, c1)
                      ELSE Classified(pd, CacheSet(c1, key, pd[1], DEFAULT_TTL, now))

\* getPackageInfo run alone on the cache c, with the responses of the two
\* requests if they are made.
PackageInfoAlone(c, infoResponse, downloadsResponse) ==
    LET key == InfoKey(packageName)
        cached == CacheGet(c, key, now)
        c1 == CacheAfterGet(c, key, now)
    IN  IF cached # None THEN [out |-> cached, cache |-> c1]
        ELSE IF infoResponse = None THEN [out |-> "not asked", cache |-> c1]
        ELSE IF IsFailure(infoResponse[1]) THEN [out |-> None, cache |-> c1]
        ELSE IF downloadsResponse = None THEN [out |-> "not asked", cache |-> c1]
        ELSE LET weeklyDownloads == IF downloadsResponse[1].kind = "ok"
                                    THEN OrElse(downloadsResponse[1].downloads, 0)
                                    ELSE 0
                 info == PackageInfoOf(packageName, infoResponse[1].data, weeklyDownloads)
             IN  [out |-> Some(info),
                  cache |-> CacheSet(c1, key, info, DEFAULT_TTL, now)]

\* What checkCompatibility handed to Promise.all.
CompatibilityOutcome == IF cpc = "raised" THEN "raised" ELSE compatibility

\* Both operations of Promise.all are over and checkSecurity has not begun.
BothOver == vpc = "await" /\ cpc \in {"done", "raised"} /\ ipc = "done"

\* C27: whatever the interleaving of the steps of checkCompatibility and
\* getPackageInfo, the two results and the cache they leave are those of
\* running the one and then the other, in either order, with the same
\* provider responses.
C27_InterleavingIsSequential ==
    BothOver =>
        LET c1 == CompatibilityAlone(cache0, received.peers)
            i1 == PackageInfoAlone(c1.cache, received.info, received.downloads)
            i2 == PackageInfoAlone(cache0, received.info, received.downloads)
            c2 == CompatibilityAlone(i2.cache, received.peers)
        IN  /\ CompatibilityOutcome = c1.out
            /\ CompatibilityOutcome = c2.out
            /\ packageInfo = i1.out
            /\ packageInfo = i2.out
            /\ cache = i1.cache
            /\ cache = c2.cache

\* While Promise.all is awaited, a step of the one operation changes neither
\* the locals nor the cache entry of the other.
DisjointSteps ==
    [][(vpc = "await" /\ vpc' = "await") =>
          /\ compatVars' # compatVars =>
                /\ infoVars' = infoVars
                /\ cache'[InfoKey(packageName)] = cache[InfoKey(packageName)]
          /\ infoVars' # infoVars =>
                /\ compatVars' = compatVars
                /\ cache'[PeersKey(packageName)] = cache[PeersKey(packageName)]]_vars

\* Both operations asked their providers and both wrote the cache, the
\* metadata fetch before the compatibility check.
C27_Witness ==
    /\ BothOver
    /\ Len(requests) >= 3
    /\ SubSeq(requests, 1, 3) = <<"info", "downloads", "peers">>
    /\ cache[PeersKey(packageName)] # None
    /\ cache[InfoKey(packageName)] # None
    /\ cache0[PeersKey(packageName)] = None
    /\ cache0[InfoKey(packageName)] = None

\* The same, the compatibility check's request between the two of the
\* metadata fetch.
C27_WitnessBetween ==
    /\ BothOver
    /\ Len(requests) >= 3
    /\ SubSeq(requests, 1, 3) = <<"info", "peers", "downloads">>
    /\ cache[PeersKey(packageName)] # None
    /\ cache[InfoKey(packageName)] # None

\* C28: a get returns the data of the most recent set of its key exactly
\* when that entry was not deleted or cleared since and its age is at most
\* its ttl, and null otherwise; a get that finds the entry expired removes
\* it, and nothing but a set puts an entry back.
C28_CacheGet ==
    /\ got # None =>
        LET key == got[1].key
            live == lastSet[key] # None
                    /\ now - lastSet[key][1].timestamp <= lastSet[key][1].ttl
        IN  /\ live => got[1].value = Some(lastSet[key][1].data)
            /\ ~live => got[1].value = None
            /\ got[1].value = None => cache[key] = None
    /\ \A key \in DOMAIN cache :
        cache[key] # None => cache[key] = lastSet[key]

\* A get at an age equal to the ttl returned the data.
C28_Witness ==
    /\ got # None
    /\ lastSet[got[1].key] # None
    /\ lastSet[got[1].key][1].ttl > 0
    /\ now - lastSet[got[1].key][1].timestamp = lastSet[got[1].key][1].ttl
    /\ got[1].value = Some(lastSet[got[1].key][1].data)

\* A get found the entry expired, returned null and removed it.
C28_WitnessExpired ==
    /\ got # None
    /\ lastSet[got[1].key] # None
    /\ now - lastSet[got[1].key][1].timestamp > lastSet[got[1].key][1].ttl
    /\ got[1].value = None
    /\ cache[got[1].key] = None

\* The entry of key was written during this validation.
WrittenNow(key) == cache[key] # None /\ cache[key] # cache0[key]

\* C29: an entry is written to the cache only when every request made to
\* build its value succeeded: the peers entry not after a failed registry
\* request, the info entry after neither a failed registry request nor a
\* failed weekly-downloads request, the security entry not after a failed
\* OSV query.
C29_NothingDegradedIsCached ==
    /\ WrittenNow(PeersKey(packageName)) => "peers" \notin failed
    /\ WrittenNow(InfoKey(packageName)) =>
           "info" \notin failed /\ "downloads" \notin failed
    /\ \A v \in KnownVersions :
           WrittenNow(SecurityKey(packageName, v)) => "osv" \notin failed

\* The same without the weekly-downloads request.
NothingDegradedIsCachedButDownloads ==
    /\ WrittenNow(PeersKey(packageName)) => "peers" \notin failed
    /\ WrittenNow(InfoKey(packageName)) => "info" \notin failed
    /\ \A v \in KnownVersions :
           WrittenNow(SecurityKey(packageName, v)) => "osv" \notin failed

\* The weekly-downloads request failed and the info, with weeklyDownloads 0,
\* is in the cache for the next DEFAULT_TTL hours.
DegradedInfoCached ==
    /\ "downloads" \in failed
    /\ WrittenNow(InfoKey(packageName))
    /\ cache[InfoKey(packageName)][1].data.weeklyDownloads = 0
    /\ cache[InfoKey(packageName)][1].ttl = DEFAULT_TTL
    /\ vpc = "done"

====
